---- MODULE Spec2Model ----
(***************************************************************************)
(* State-machine model of the two orchestration engines of the             *)
(* ai-dispro-app repository:                                               *)
(*   - IngestionOrchestrator   (src/src/ingestion/orchestrator.py)         *)
(*   - AnalysisOrchestrator    (src/src/analysis/orchestrator.py)          *)
(*   - LangGraphWorker         (src/src/analysis/workers/langgraph_worker.py)*)
(* Every remote call, every database session and every blob write of the   *)
(* code is one step; the environment (case-management system, LLM, parser, *)
(* blob store, database) answers each step nondeterministically.           *)
(***************************************************************************)
EXTENDS Naturals, Sequences, FiniteSets, TLC

VARIABLES
    pc,      \* ingestion: position inside IngestionOrchestrator.ingest
    inp,     \* ingestion: arguments of the running ingest call and the collaborators in use
    loc,     \* ingestion: local variables of ingest and of the methods it calls
    db,      \* committed rows of the relational database
    sess,    \* the open write session of _process_version: <<>> or <<working copy of db>>
    ids,     \* autoincrement sequences of the tables (never rolled back)
    blobs,   \* blobs present in the content store
    out,     \* ingestion: what ingest gave back to its caller
    hist,    \* ingestion: what happened during the running call (observation only)
    runs     \* number of ingest calls started so far

vars == <<pc, inp, loc, db, sess, ids, blobs, out, hist, runs>>

---------------------------------------------------------------------------
(* Bounds of the model *)
MaxUrns == 2        \* longest URN list of a batch trigger
MaxDocs == 2        \* most documents the case system lists, over all calls made
MaxSections == 2    \* most narratives the extractor LLM returns, over all calls made
MaxRuns == 2        \* ingest calls made one after the other on the same database
MaxRerunDocs == 1      \* most documents it lists in one call of a sequence of calls
MaxRerunSections == 1  \* most narratives the extractor returns in one call of a sequence
MaxTasks == 3       \* tasks in the registry the analysis orchestrator is built with
MaxRequested == 2   \* longest task_ids list passed to analyze
MaxResults == 1     \* most results one worker persists
MaxCandidates == 2  \* most candidates in one critic response
MaxFaults == 3      \* failed LLM calls over one LangGraphWorker.analyze
MaxMatch == 9       \* characters of a validated subset found at the start of the text
MaxTail == 1        \* characters of it found after a gap
MaxJunk == 2        \* characters of it found nowhere in the text
MaxNarratives == 3  \* narratives in one answer of the section extractor

(* Program constants *)
MaxAttempts == 3    \* tenacity stop_after_attempt(3)
NoId == 0           \* Python None in an integer-valued position

NoExperiment == <<>>  \* Python None in an experiment-id position
NoError == <<>>       \* IngestionResult.error is None; a message is a sequence of fragments

---------------------------------------------------------------------------
(* Value domains of the environment *)

TriggerType == {"urn", "urn_list", "blob_name", "filepath"}
InvalidTrigger == "INVALID"

supportedCMSDocCategories == {"Review", "MGForm"}
supportedDocTypes == {"MG 3", "MG3", "MG3 (with Schedule of Charges)"}
supportedMimeTypes == {"application/pdf",
                       "application/vnd.openxmlformats-officedocument.wordprocessingml.document"}

\* what the case system may say about a listed document
CmsCategories == {"MGForm", "Other"}
CmsDocTypes == {"MG3", "MG1"}
CmsMimeTypes == {"application/pdf", "text/plain"}

UrnNames == <<"URN1", "URN2", "URN3", "URN4">>
PlaceholderUrn == "01BL0000001"

\* identifiers the case system hands out: stable per URN, so that a second
\* ingestion of the same URN supplies the same case, document and version ids
CmsCaseId(u) == 10 * u
CmsDocId(u, j) == 100 * u + j
CmsVersionId(u, j) == 200 * u + j
CmsDefendantId(u) == 300 * u
CmsChargeId(u) == 400 * u
CmsOffenceId(u) == 500 * u

\* the experiment id a caller may supply
SuppliedExperiment == <<"EXP">>
AutoExperiment(n) == <<"uuid", n>>

---------------------------------------------------------------------------
(* Exceptions: a type, the message str(e) yields, and the wrapped cause *)

Exc(type, msg) == [type |-> type, msg |-> msg, cause |-> ""]

\* tenacity without reraise=True: the last failure is wrapped in a RetryError
\* whose str() names the Future and the exception class of the cause, not its message
\* (the address is id() of the Future, another value in every run: one stands for all)
RetryError(e) == [type |-> "RetryError",
                  msg |-> "RetryError[<Future at 0x7f0000000000 state=finished raised "
                            \o e.type \o ">]",
                  cause |-> e.msg]

NoExc == [type |-> "", msg |-> "", cause |-> ""]

---------------------------------------------------------------------------
(* IngestionResult, src/src/ingestion/models.py *)

IngestionResult(success, error) ==
    [success |-> success, case_ids |-> <<>>, document_ids |-> <<>>,
     version_ids |-> <<>>, section_ids |-> <<>>, error |-> error]

NoResult == [success |-> FALSE, case_ids |-> <<>>, document_ids |-> <<>>,
             version_ids |-> <<>>, section_ids |-> <<>>, error |-> NoError]

---------------------------------------------------------------------------
(* Fuzzy subset validator, src/src/ingestion/utils.py.                     *)
(* A text is a sequence of one-character strings.                          *)

BIGGEST_ALLOWED_GAP == 100
\* SIMILARITY_THRESHOLD = 0.90, kept as the fraction 9/10
SimilarityNum == 9
SimilarityDen == 10

AlphaNum == {"a", "b", "c", "d", "x", "y", "0", "1"}
lower(ch) == CASE ch = "A" -> "a" [] ch = "B" -> "b" [] ch = "C" -> "c"
               [] ch = "D" -> "d" [] ch = "X" -> "x" [] ch = "Y" -> "y"
               [] OTHER -> ch

\* non_alphanum_pattern.sub("", s.lower())
IsAlphaNum(ch) == ch \in AlphaNum
clean(s) == SelectSeq([i \in DOMAIN s |-> lower(s[i])], IsAlphaNum)

Block(a, b, size) == [a |-> a, b |-> b, size |-> size]

\* SequenceMatcher.find_longest_match without junk: the longest common block of
\* a[alo:ahi] and b[blo:bhi], the one starting earliest in a, then earliest in b
\* (offsets are 0-based as in Python)
CommonBlocks(a, b, alo, ahi, blo, bhi) ==
    {m \in [a : alo .. ahi, b : blo .. bhi,
             size : 1 .. (IF ahi - alo < bhi - blo THEN ahi - alo ELSE bhi - blo)] :
        /\ m.a + m.size <= ahi
        /\ m.b + m.size <= bhi
        /\ \A t \in 1 .. m.size : a[m.a + t] = b[m.b + t]}

find_longest_match(a, b, alo, ahi, blo, bhi) ==
    LET ms == CommonBlocks(a, b, alo, ahi, blo, bhi)
    IN IF ms = {} THEN Block(alo, blo, 0)
       ELSE CHOOSE m \in ms :
              \A n \in ms :
                 \/ m.size > n.size
                 \/ m.size = n.size /\ m.a < n.a
                 \/ m.size = n.size /\ m.a = n.a /\ m.b <= n.b

\* the recursion of SequenceMatcher.get_matching_blocks, in increasing order
RECURSIVE MatchingBlocksIn(_, _, _, _, _, _)
MatchingBlocksIn(a, b, alo, ahi, blo, bhi) ==
    LET m == find_longest_match(a, b, alo, ahi, blo, bhi)
    IN IF m.size = 0 THEN <<>>
       ELSE (IF alo < m.a /\ blo < m.b
             THEN MatchingBlocksIn(a, b, alo, m.a, blo, m.b) ELSE <<>>)
            \o <<m>> \o
            (IF m.a + m.size < ahi /\ m.b + m.size < bhi
             THEN MatchingBlocksIn(a, b, m.a + m.size, ahi, m.b + m.size, bhi) ELSE <<>>)

\* adjacent blocks are collapsed into one
RECURSIVE CollapseAdjacent(_, _)
CollapseAdjacent(bs, cur) ==
    IF bs = <<>> THEN (IF cur.size > 0 THEN <<cur>> ELSE <<>>)
    ELSE IF cur.a + cur.size = Head(bs).a /\ cur.b + cur.size = Head(bs).b
         THEN CollapseAdjacent(Tail(bs), [cur EXCEPT !.size = cur.size + Head(bs).size])
         ELSE (IF cur.size > 0 THEN <<cur>> ELSE <<>>) \o CollapseAdjacent(Tail(bs), Head(bs))

\* SequenceMatcher(a=text, b=subset).get_matching_blocks(): ends with a sentinel of size 0
get_matching_blocks(a, b) ==
    CollapseAdjacent(MatchingBlocksIn(a, b, 0, Len(a), 0, Len(b)), Block(0, 0, 0))
        \o <<Block(Len(a), Len(b), 0)>>

\* the inner for loop of is_valid_subset: st = [end, curr_idx]
RECURSIVE ConcatScan(_, _, _)
ConcatScan(blocks, end_idx, st) ==
    IF end_idx > Len(blocks) THEN st
    ELSE LET nb == blocks[end_idx]
         IN IF nb.size > 0 /\ nb.a <= st.end + BIGGEST_ALLOWED_GAP
            THEN ConcatScan(blocks, end_idx + 1, [end |-> nb.a + nb.size, curr_idx |-> end_idx])
            ELSE ConcatScan(blocks, end_idx + 1, st)

\* the while loop of is_valid_subset: the concatenated blocks (indices are 1-based here)
RECURSIVE concatenated_blocks(_, _)
concatenated_blocks(blocks, curr_idx) ==
    IF curr_idx > Len(blocks) THEN <<>>
    ELSE LET cb == blocks[curr_idx]
             st == ConcatScan(blocks, curr_idx + 1,
                              [end |-> cb.a + cb.size, curr_idx |-> curr_idx + 1])
         IN <<[start |-> cb.a, end |-> st.end]>> \o concatenated_blocks(blocks, st.curr_idx)

RatioAlwaysEnough(span, n) == TRUE

\* best_ratio >= SIMILARITY_THRESHOLD for one concatenated block
RatioEnough(span, n) == SimilarityDen * span >= SimilarityNum * n

is_valid_subset(text, subset) ==
    LET text_clean == clean(text)
        subset_clean == clean(subset)
        cbs == concatenated_blocks(get_matching_blocks(text_clean, subset_clean), 1)
    IN /\ subset_clean # <<>>
       /\ \E i \in DOMAIN cbs : RatioEnough(cbs[i].end - cbs[i].start, Len(subset_clean))

\* texts of the model
DocText == <<"A", "b", " ", "c", "d">>
ValidNarrative == <<"b", "-", "C">>
InvalidNarrative == <<"x", "y">>
CandidateTexts == {ValidNarrative, InvalidNarrative}
RedactedText == <<"#">>

---------------------------------------------------------------------------
(* StorageSettings, src/src/config/settings_manager.py: the attributes the  *)
(* dataclass defines, with their defaults.  The record has no other field:  *)
(* reading an attribute it lacks raises AttributeError.                     *)

StorageSettings ==
    [table_name_cases |-> "cases", table_name_defendants |-> "defendants",
     table_name_charges |-> "charges", table_name_documents |-> "documents",
     table_name_versions |-> "versions", table_name_experiments |-> "experiments",
     table_name_sections |-> "sections", table_name_analysisjobs |-> "analysisjobs",
     table_name_analysisjobresults |-> "analysisjobresults",
     table_name_prompt_templates |-> "prompt_templates", table_name_events |-> "events",
     blob_container_name_source |-> "corpus",
     blob_container_name_processed |-> "processed"]

\* setattr(settings.storage, name, value) for every field of extra
setattr(storage, extra) ==
    [name \in (DOMAIN storage) \cup (DOMAIN extra) |->
        IF name \in DOMAIN extra THEN extra[name] ELSE storage[name]]

\* hasattr(settings.storage, name)
hasattr(storage, name) == name \in DOMAIN storage

\* the attributes the code reads and the dataclass does not define, with the
\* values of a process that sets them before it imports the packages
OffencesTable == [table_name_offences |-> "offences"]
AnalysisResultsTable == [table_name_analysisresults |-> "analysisresults"]
SectionContainer == [blob_container_name_section |-> "section"]

\* settings.storage of a process: as the dataclass builds it, or with the
\* missing attributes set
WithTables == setattr(setattr(StorageSettings, OffencesTable), AnalysisResultsTable)
WithAll == setattr(WithTables, SectionContainer)

\* AttributeError of a read of settings.storage.<name>
AttributeError(name) ==
    Exc("AttributeError",
        CASE name = "table_name_offences" ->
                "'StorageSettings' object has no attribute 'table_name_offences'"
          [] name = "table_name_analysisresults" ->
                "'StorageSettings' object has no attribute 'table_name_analysisresults'"
          [] name = "blob_container_name_section" ->
                "'StorageSettings' object has no attribute 'blob_container_name_section'")

\* the class bodies of src/src/models read their table name when the package
\* is imported, in the order of models/__init__.py: the first attribute that
\* is missing, or "" when every class body can be evaluated
import_error(storage) ==
    IF ~hasattr(storage, "table_name_offences") THEN "table_name_offences"
    ELSE IF ~hasattr(storage, "table_name_analysisresults") THEN "table_name_analysisresults"
    ELSE ""

---------------------------------------------------------------------------
(* DatabaseSettings, src/src/config/settings_manager.py 70-81: the          *)
(* attributes the dataclass defines, with their defaults.  load_from_env    *)
(* sets these eight and no other.                                           *)

DatabaseSettings ==
    [host |-> "********", port |-> 5432, name |-> "********",
     username_secret_name |-> "********", password_secret_name |-> "********",
     pool_size |-> 10, max_overflow |-> 20, echo |-> FALSE]

\* the attributes get_connection_string reads and the dataclass does not
\* define, with the values of a process that sets them before the call
Username == [username |-> "user"]
Schema == [schema |-> "public"]

\* settings.database of a process with the missing attributes set
WithSchema == setattr(setattr(DatabaseSettings, Username), Schema)

\* the token of the Azure credential, used as the password
Token == "token"

\* get_connection_string(settings) of services/azure_postgresql.py, after the
\* token was obtained: the f-string reads database.username, host, port, name
\* and schema in this order, and the first attribute the object lacks raises
get_connection_string(database, password) ==
    IF ~hasattr(database, "username")
    THEN Exc("AttributeError", "'DatabaseSettings' object has no attribute 'username'")
    ELSE IF ~hasattr(database, "schema")
    THEN Exc("AttributeError", "'DatabaseSettings' object has no attribute 'schema'")
    ELSE [type |-> "str",
          msg |-> "postgresql+psycopg2://" \o database.username \o ":" \o password
                    \o "@" \o database.host \o ":" \o ToString(database.port)
                    \o "/" \o database.name
                    \o "?options=-c%20search_path%3D" \o database.schema
                    \o "&sslmode=require",
          cause |-> ""]

---------------------------------------------------------------------------
(* The relationships of src/src/models.  Offence.defendant is declared with *)
(* back_populates="offences" (models/offence.py 37-41); Defendant declares  *)
(* the relationships case and charges only (models/defendant.py 35-44).     *)

\* the relationship properties of Defendant, as declared
DefendantRelationships == {"case", "charges"}

\* ... and in a process whose Defendant has the property Offence points at
WithOffences == DefendantRelationships \cup {"offences"}

\* Mapper.get_property of the Defendant mapper, for the key back_populates names
NoProperty ==
    "Mapper 'Mapper[Defendant(defendants)]' has no property 'offences'.  If this property was indicated from other mappers or configure events, ensure registry.configure() has been called."

\* SQLAlchemy configures every mapper of the registry at the first use of any
\* mapped class (an instance is built, a select is compiled), before a
\* statement reaches the database.  The configuration of the Offence mapper
\* raises when Defendant has no property 'offences'; the mapper keeps the
\* exception, and every later use in the process raises the second text.
configure_mappers(relationships, failed_before) ==
    IF "offences" \in relationships THEN NoExc
    ELSE IF ~failed_before THEN Exc("InvalidRequestError", NoProperty)
    ELSE Exc("InvalidRequestError",
             "One or more mappers failed to initialize - can't proceed with initialization of other mappers. Triggering mapper: 'Mapper[Offence(offences)]'. Original exception was: "
               \o NoProperty)

---------------------------------------------------------------------------
(* The content store: a blob is named by its container and its name.       *)
(* Names follow the orchestrator's scheme.                                 *)

BlobName(container, kind, exp, a, b, c) ==
    [container |-> container, kind |-> kind, exp |-> exp, a |-> a, b |-> b, c |-> c]

NoBlob == BlobName("None", "None", NoExperiment, NoId, NoId, NoId)
\* the blob a blob_name trigger names
GivenBlob == BlobName(StorageSettings.blob_container_name_source, "given",
                      NoExperiment, NoId, NoId, NoId)
\* f"FILEPATH/{Path(filepath).name}"
FileBlob == BlobName(StorageSettings.blob_container_name_source, "FILEPATH",
                     NoExperiment, NoId, NoId, NoId)
\* f"{experiment_id}/{case.id}/{doc_data['id']}_{doc_data['versionId']}{ext}"
RawBlob(exp, case, doc, ver) ==
    BlobName(StorageSettings.blob_container_name_source, "raw", exp, case, doc, ver)
\* f"{version.source_blob_name}.json" in the processed container
ParsedBlob(src) == [src EXCEPT !.container = StorageSettings.blob_container_name_processed]
\* f"{experiment.id}/{version.id}/{section.id}.txt" in the container that
\* settings.storage.blob_container_name_section names
SectionBlob(storage, exp, ver, sec) ==
    BlobName(storage.blob_container_name_section, "section", exp, ver, sec, NoId)

---------------------------------------------------------------------------
(* The relational store.  A table is the sequence of its rows in insertion  *)
(* order; the columns of a table are the fields of its default row.        *)

CaseDefaults == [id |-> NoId, urn |-> "None", finalised |-> "None"]
DefendantDefaults == [id |-> NoId, case_id |-> NoId]
ChargeDefaults == [id |-> NoId, defendant_id |-> NoId]
OffenceDefaults == [id |-> NoId, defendant_id |-> NoId]
DocumentDefaults == [id |-> NoId, case_id |-> NoId, original_file_name |-> "None"]
VersionDefaults == [id |-> NoId, document_id |-> NoId,
                    source_blob_name |-> NoBlob, parsed_blob_name |-> NoBlob]
SectionDefaults == [id |-> NoId, experiment_id |-> NoExperiment, version_id |-> NoId,
                    document_id |-> NoId, redacted_content |-> <<>>,
                    content_blob_name |-> NoBlob]

EmptyDb == [cases |-> <<>>, defendants |-> <<>>, charges |-> <<>>, offences |-> <<>>,
            documents |-> <<>>, versions |-> <<>>, experiments |-> <<>>,
            sections |-> <<>>, analysisjobs |-> <<>>, analysisresults |-> <<>>]

InitIds == [cases |-> 1, defendants |-> 1, charges |-> 1, offences |-> 1,
            documents |-> 1, versions |-> 1, sections |-> 1, experiments |-> 1,
            analysisjobs |-> 1, analysisresults |-> 1]

KwId(kw) == IF "id" \in DOMAIN kw THEN kw.id ELSE NoId

exists(tbl, id) == \E i \in DOMAIN tbl : tbl[i].id = id

\* BaseRepository.upsert takes the update path
UpsertUpdates(tbl, kw) == KwId(kw) # NoId /\ exists(tbl, KwId(kw))

\* model(**fields): SQLAlchemy's constructor rejects a keyword that is no column
CreateRaises(defaults, kw) == ~(DOMAIN kw \subseteq DOMAIN defaults)

\* BaseRepository.create: the row with the given fields; the primary key comes
\* from the autoincrement sequence when none is given
create(tbl, defaults, kw, fresh) ==
    Append(tbl, [c \in DOMAIN defaults |->
                    IF c = "id"
                    THEN (IF KwId(kw) # NoId THEN kw.id ELSE fresh)
                    ELSE IF c \in DOMAIN kw THEN kw[c] ELSE defaults[c]])

\* BaseRepository.update / the update path of upsert: only attributes the
\* entity has are set, every other column keeps its value
update(tbl, id, kw) ==
    [i \in DOMAIN tbl |->
        IF tbl[i].id = id
        THEN [c \in DOMAIN tbl[i] |-> IF c \in DOMAIN kw THEN kw[c] ELSE tbl[i][c]]
        ELSE tbl[i]]

UpsertAlwaysCreates(tbl, defaults, kw, fresh) == create(tbl, defaults, kw, fresh)

\* BaseRepository.upsert
upsert(tbl, defaults, kw, fresh) ==
    IF UpsertUpdates(tbl, kw)
    THEN update(tbl, KwId(kw), kw)
    ELSE create(tbl, defaults, kw, fresh)

UpsertRaises(tbl, defaults, kw) == ~UpsertUpdates(tbl, kw) /\ CreateRaises(defaults, kw)

\* the id of the entity upsert returns
UpsertId(tbl, kw, fresh) == IF KwId(kw) # NoId THEN kw.id ELSE fresh

\* the autoincrement sequence after upsert
UpsertNext(tbl, kw, fresh) == IF KwId(kw) # NoId THEN fresh ELSE fresh + 1

RowsWithId(tbl, id) == {i \in DOMAIN tbl : tbl[i].id = id}

\* Base.metadata.tables, as far as the model holds them
Tables == DOMAIN EmptyDb

\* the ForeignKey columns of src/src/models among the columns of the model:
\* <<table, column, referenced table>>
ForeignKeys ==
    {<<"defendants", "case_id", "cases">>, <<"charges", "defendant_id", "defendants">>,
     <<"offences", "defendant_id", "defendants">>, <<"documents", "case_id", "cases">>,
     <<"versions", "document_id", "documents">>, <<"sections", "version_id", "versions">>,
     <<"sections", "experiment_id", "experiments">>,
     <<"analysisjobs", "section_id", "sections">>,
     <<"analysisjobs", "experiment_id", "experiments">>,
     <<"analysisresults", "analysis_job_id", "analysisjobs">>}

\* those whose parent declares relationship(..., cascade="all, delete-orphan"):
\* Defendant declares none for its offences
Cascades == ForeignKeys \ {<<"offences", "defendant_id", "defendants">>}

\* the rows that reference one of rows through a key of keys, as <<table, id>>
Referrers(d, rows, keys) ==
    UNION {{<<fk[1], d[fk[1]][i].id>> :
              i \in {j \in DOMAIN d[fk[1]] : <<fk[3], d[fk[1]][j][fk[2]]>> \in rows}} :
           fk \in keys}

RECURSIVE Doomed(_, _)
\* session.delete(entity): the entity and, through the cascading
\* relationships, the rows that belong to it
Doomed(d, rows) ==
    LET more == rows \cup Referrers(d, rows, Cascades)
    IN IF more = rows THEN rows ELSE Doomed(d, more)

\* BaseRepository.delete finds no entity and returns False
DeleteMisses(d, t, id) == ~exists(d[t], id)

\* the flush of the DELETE violates a foreign key no relationship cascades over
DeleteRaises(d, t, id) ==
    /\ exists(d[t], id)
    /\ Referrers(d, Doomed(d, {<<t, id>>}), ForeignKeys) \ Doomed(d, {<<t, id>>}) # {}

\* BaseRepository.delete of the repository of table t: the database after
\* session.delete and flush
delete(d, t, id) ==
    [tt \in DOMAIN d |->
        SelectSeq(d[tt], LAMBDA row : <<tt, row.id>> \notin Doomed(d, {<<t, id>>}))]

RECURSIVE Referencing(_)
\* TRUNCATE ... CASCADE: the tables named and every table with a foreign key
\* to one of them
Referencing(tables) ==
    LET more == tables \cup {fk[1] : fk \in {f \in ForeignKeys : f[3] \in tables}}
    IN IF more = tables THEN tables ELSE Referencing(more)

\* SessionManager.truncate_table: TRUNCATE TABLE t RESTART IDENTITY CASCADE
truncate_table(d, t) ==
    [tt \in DOMAIN d |-> IF tt \in Referencing({t}) THEN <<>> ELSE d[tt]]

\* RESTART IDENTITY: the sequences of the truncated tables start again; the
\* key of experiments is a string and has no sequence
restart_identity(seqs, t) ==
    [tt \in DOMAIN seqs |->
        IF tt \in Referencing({t}) /\ tt # "experiments" THEN InitIds[tt] ELSE seqs[tt]]

\* ExperimentRepository.upsert(id=experiment_id): the primary key is a string
experiment_upsert(tbl, id) ==
    IF \E i \in DOMAIN tbl : tbl[i].id = id THEN tbl ELSE Append(tbl, [id |-> id])

---------------------------------------------------------------------------
(* IngestionOrchestrator, src/src/ingestion/orchestrator.py                *)

NoVersion == [id |-> NoId, document_id |-> NoId, source_blob_name |-> NoBlob]

InitLoc == [urnIdx |-> 0, case_id |-> NoId, hasSummary |-> FALSE,
            nDocs |-> 0, docIdx |-> 0, selected |-> <<>>, nDef |-> 0, nOff |-> 0,
            caseRow |-> NoId, versions |-> <<>>, verIdx |-> 0,
            version |-> NoVersion, caller |-> "", blob_name |-> NoBlob,
            sections_data |-> <<>>, secIdx |-> 0, attempt |-> 0,
            experiment |-> NoExperiment, section |-> NoId, redacted |-> <<>>,
            caseRes |-> NoResult, verRes |-> NoResult, overall |-> NoResult]

Running == [state |-> "running", result |-> NoResult]

Least(a, b) == IF a <= b THEN a ELSE b

InitHist(d, b, budget) ==
    [exc |-> NoExc,            \* the exception that ended the call, if one did
     auth |-> "none",          \* what authenticate() gave back
     cms |-> <<>>,             \* the requests the case system received
     attempted |-> <<>>,       \* the URNs _ingest_from_urn was called with
     badSelected |-> FALSE,    \* a document outside an allow-list was selected
     retried |-> FALSE,        \* a retried call succeeded after a failed attempt
     failed |-> <<>>,          \* the items that returned a failure, with their error
     succeeded |-> <<>>,       \* the results of the items that returned a success
     filtered |-> "",          \* how the last document loop ended: "none" or "some" selected
     supplied |-> {},          \* the <<table, id>> upserted with an id of the case system
     nListed |-> 0,            \* documents listed so far
     docsLeft |-> Least(budget[1], budget[3]),        \* documents the case system may still list in this call
     narrativesLeft |-> Least(budget[2], budget[4]),  \* narratives the extractor may still return in it
     budget |-> budget,        \* what this and the later calls may use together, and one call alone
     started |-> <<>>,         \* the versions of the case _process_version was called with
     failedVersion |-> NoId,   \* the version in which a retried call failed for good
     configure_failed |-> FALSE,  \* the mapper configuration failed in this process
     db0 |-> d, blobs0 |-> b]  \* the stores when the call started

\* str(e)
Str(e) == <<e.msg>>

ExceptionPropagates(e) == [state |-> "raised", result |-> NoResult]

\* the except clause of ingest: every Exception becomes a failed result
ingest_except(e) == [state |-> "returned", result |-> IngestionResult(FALSE, Str(e))]

RaiseCommits(e, h) ==
    /\ pc' = "done"
    /\ out' = ingest_except(e)
    /\ sess' = <<>>
    /\ db' = IF sess = <<>> THEN db ELSE sess[1]
    /\ loc' = InitLoc
    /\ hist' = [h EXCEPT !.exc = e]
    /\ UNCHANGED <<inp, ids, blobs, runs>>

\* an exception raised inside ingest after the session drew the sequence values
\* up to seqs: the rows of the open session are rolled back on the way out, the
\* sequences are not (PostgreSQL does not give a sequence value back)
RaiseAfter(e, h, seqs) ==
    /\ pc' = "done"
    /\ out' = ingest_except(e)
    /\ sess' = <<>>
    /\ ids' = seqs
    /\ loc' = InitLoc
    /\ hist' = [h EXCEPT !.exc = e]
    /\ UNCHANGED <<inp, db, blobs, runs>>

\* an exception raised inside ingest: an open session is rolled back on the way out
Raise(e, h) == RaiseAfter(e, h, ids)

\* ingest returns res
Finish(res, h) ==
    /\ pc' = "done"
    /\ out' = [state |-> "returned", result |-> res]
    /\ loc' = InitLoc
    /\ hist' = h

\* the models of this process cannot be configured
Unmapped == configure_mappers(inp.defendant, FALSE) # NoExc

\* the first use of a mapped class in a call raises out of ingest
MapperRaises(h) ==
    /\ Unmapped
    /\ Raise(configure_mappers(inp.defendant, h.configure_failed),
             [h EXCEPT !.configure_failed = TRUE])

\* EventRepository.log fails: _log does not catch it.  log builds an Event,
\* which is where models that cannot be configured raise
LogRaises(h) ==
    IF Unmapped THEN MapperRaises(h)
    ELSE Raise(Exc("OperationalError", "audit log failed"), h)

\* a session of the orchestrator fails to connect, flush or commit
DbRaises(h) == Raise(Exc("OperationalError", "database unavailable"), h)

\* a later operation of a session, or its commit, fails after rows were flushed
DbRaisesAfter(h, seqs) == RaiseAfter(Exc("OperationalError", "database unavailable"), h, seqs)

\* what save_blob(...) does to the content store.  The function of
\* services/azure_blob_storage.py is a coroutine function and the orchestrator
\* calls it without await: the call builds a coroutine object and writes nothing.
\* A synchronous save_blob writes the blob.
save_blob(store, kind, name) == IF kind = "coroutine" THEN store ELSE store \cup {name}

BlobRaises(h) ==
    /\ inp.blob = "plain"
    /\ Raise(Exc("HttpResponseError", "blob upload failed"), h)

\* ---- the process imports the packages ------------------------------------

\* `from .offence import Offence` ... of models/__init__.py, which every
\* package of the application imports: a class body that cannot read its table
\* name raises, and no orchestrator is ever built
import_package(first) ==
    /\ pc = "import"
    /\ IF import_error(inp.storage) # ""
       THEN /\ pc' = "import_failed"
            /\ out' = [state |-> "import_failed",
                       error |-> AttributeError(import_error(inp.storage))]
       ELSE /\ pc' = first
            /\ out' = out
    /\ UNCHANGED <<inp, loc, db, sess, ids, blobs, hist, runs>>

\* the process that will call ingest
import_models == import_package("start")

\* ---- ingest ------------------------------------------------------------

ingest_route ==
    /\ pc = "start"
    /\ \/ /\ inp.trigger_type \in {"urn", "urn_list"}
          /\ \/ /\ pc' = "auth"
                /\ UNCHANGED <<inp, loc, db, sess, ids, blobs, out, hist, runs>>
             \/ Raise(Exc("KeyVaultError", "CMS secret unavailable"), hist)
       \/ /\ inp.trigger_type = "blob_name"
          /\ pc' = "blob_store"
          /\ loc' = [loc EXCEPT !.blob_name = GivenBlob]
          /\ UNCHANGED <<inp, db, sess, ids, blobs, out, hist, runs>>
       \/ /\ inp.trigger_type = "filepath"
          /\ pc' = "file_read"
          /\ UNCHANGED <<inp, loc, db, sess, ids, blobs, out, hist, runs>>
       \/ /\ inp.trigger_type \notin TriggerType
          /\ Finish(IngestionResult(FALSE, <<"Unknown trigger type: ", inp.trigger_type>>), hist)
          /\ UNCHANGED <<inp, db, sess, ids, blobs, runs>>

\* what cms_client.authenticate() evaluates to at the call site.  CMSClient's
\* methods are coroutine functions and the orchestrator calls them without
\* await, so the in-repository client yields a coroutine object; a client with
\* plain methods yields the bool.
authenticate(kind) == IF kind = "coroutine" THEN {"coroutine"} ELSE {"True", "False"}

\* `if not is_auth_successful`
auth_failed(v) == v = "False"

cms_authenticate ==
    /\ pc = "auth"
    /\ \/ LogRaises(hist)
       \/ /\ inp.cms = "plain"
          /\ Raise(Exc("Exception", "authenticate raised"), [hist EXCEPT !.auth = "raised"])
       \/ \E v \in authenticate(inp.cms) :
            LET h == [hist EXCEPT !.auth = v,
                                  !.cms = IF inp.cms = "plain"
                                          THEN Append(@, <<"authenticate", 0>>) ELSE @]
            IN IF auth_failed(v)
               THEN /\ Finish(IngestionResult(FALSE, <<"CMS authentication failed">>), h)
                    /\ UNCHANGED <<inp, db, sess, ids, blobs, runs>>
               ELSE \/ LogRaises(h)
                    \/ /\ pc' = "batch"
                       /\ loc' = [loc EXCEPT !.urnIdx = 1,
                                             !.overall = IngestionResult(TRUE, NoError)]
                       /\ hist' = h
                       /\ UNCHANGED <<inp, db, sess, ids, blobs, out, runs>>

\* the loop of the URN_LIST branch; a URN trigger makes the one call
batch_next ==
    /\ pc = "batch"
    /\ IF loc.urnIdx <= Len(inp.value)
       THEN /\ pc' = "urn_resolve"
            /\ hist' = [hist EXCEPT !.attempted = Append(@, inp.value[loc.urnIdx])]
            /\ UNCHANGED <<inp, loc, db, sess, ids, blobs, out, runs>>
       ELSE /\ Finish(loc.overall, hist)
            /\ UNCHANGED <<inp, db, sess, ids, blobs, runs>>

\* the body of the URN_LIST loop after _ingest_from_urn returned result
batch_aggregate(overall, result) ==
    IF ~result.success
    THEN [overall EXCEPT !.success = FALSE,
                         !.error = <<"One or more URNs failed ingestion. Latest error: ">>
                                   \o result.error]
    ELSE [overall EXCEPT !.case_ids = @ \o result.case_ids,
                         !.document_ids = @ \o result.document_ids,
                         !.version_ids = @ \o result.version_ids,
                         !.section_ids = @ \o result.section_ids]

\* _ingest_from_urn returns res to ingest
UrnReturn(res, h) ==
    IF inp.trigger_type = "urn"
    THEN Finish(res, h)
    ELSE /\ pc' = "batch"
         /\ loc' = [InitLoc EXCEPT !.urnIdx = loc.urnIdx + 1,
                                   !.overall = batch_aggregate(loc.overall, res)]
         /\ hist' = [h EXCEPT !.failed = IF res.success THEN @
                                         ELSE Append(@, <<inp.value[loc.urnIdx], res.error>>),
                              !.succeeded = IF res.success THEN Append(@, res) ELSE @]
         /\ out' = out

CurrentUrn == inp.value[loc.urnIdx]

\* ---- _ingest_from_urn --------------------------------------------------

urn_resolve ==
    /\ pc = "urn_resolve"
    /\ \/ LogRaises(hist)
       \/ /\ inp.cms = "coroutine"
          /\ pc' = "urn_summary"
          /\ UNCHANGED <<inp, loc, db, sess, ids, blobs, out, hist, runs>>
       \/ /\ inp.cms = "plain"
          /\ \/ \E id \in {NoId, CmsCaseId(CurrentUrn)} :
                  /\ pc' = "urn_summary"
                  /\ loc' = [loc EXCEPT !.case_id = id]
                  /\ hist' = [hist EXCEPT !.cms = Append(@, <<"resolve", CurrentUrn>>)]
                  /\ UNCHANGED <<inp, db, sess, ids, blobs, out, runs>>
             \/ Raise(Exc("Exception", "case id request raised"), hist)

urn_summary ==
    /\ pc = "urn_summary"
    /\ \/ /\ inp.cms = "coroutine"
          /\ Raise(Exc("AttributeError", "'coroutine' object has no attribute 'get'"), hist)
       \/ /\ inp.cms = "plain"
          /\ \/ \E s \in BOOLEAN :
                  /\ pc' = "urn_list"
                  /\ loc' = [loc EXCEPT !.hasSummary = s]
                  /\ hist' = [hist EXCEPT !.cms = Append(@, <<"summary", CurrentUrn>>)]
                  /\ UNCHANGED <<inp, db, sess, ids, blobs, out, runs>>
             \/ Raise(Exc("Exception", "case summary request raised"), hist)

urn_list_documents ==
    /\ pc = "urn_list"
    /\ \/ \E n \in 0 .. hist.docsLeft :
            /\ pc' = "urn_filter"
            /\ loc' = [loc EXCEPT !.nDocs = n, !.docIdx = 1, !.selected = <<>>]
            /\ hist' = [hist EXCEPT !.cms = Append(@, <<"list", CurrentUrn>>),
                                    !.nListed = @ + n, !.docsLeft = @ - n]
            /\ UNCHANGED <<inp, db, sess, ids, blobs, out, runs>>
       \/ Raise(Exc("Exception", "document list request raised"), hist)

SelectsWithoutMimeCheck(cat, type, mime) ==
    /\ cat \in supportedCMSDocCategories
    /\ type \in supportedDocTypes

\* the three `continue` tests of the document loop
is_selected(cat, type, mime) ==
    /\ cat \in supportedCMSDocCategories
    /\ type \in supportedDocTypes
    /\ mime \in supportedMimeTypes

CmsDoc(u, j) == [id |-> CmsDocId(u, j), versionId |-> CmsVersionId(u, j)]

UploadsWhileDownloading ==
    /\ pc = "urn_filter"
    /\ loc.docIdx <= loc.nDocs
    /\ \E cat \in CmsCategories, type \in CmsDocTypes, mime \in CmsMimeTypes :
         IF is_selected(cat, type, mime)
         THEN \/ LogRaises(hist)
              \/ Raise(Exc("HTTPError", "document download failed"), hist)
              \/ /\ pc' = "urn_filter"
                 /\ loc' = [loc EXCEPT !.docIdx = @ + 1,
                                       !.selected = Append(@, CmsDoc(CurrentUrn, loc.docIdx))]
                 /\ blobs' = save_blob(blobs, inp.blob,
                                       RawBlob(inp.experiment_id, loc.caseRow,
                                               CmsDocId(CurrentUrn, loc.docIdx),
                                               CmsVersionId(CurrentUrn, loc.docIdx)))
                 /\ hist' = [hist EXCEPT !.cms = Append(@, <<"download", CmsDocId(CurrentUrn, loc.docIdx)>>)]
                 /\ UNCHANGED <<inp, db, sess, ids, out, runs>>
         ELSE /\ pc' = "urn_filter"
              /\ loc' = [loc EXCEPT !.docIdx = @ + 1]
              /\ UNCHANGED <<inp, db, sess, ids, blobs, out, hist, runs>>

\* one pass of the document loop: the filter and, for a selected document, the download
urn_filter_download ==
    /\ pc = "urn_filter"
    /\ loc.docIdx <= loc.nDocs
    /\ \E cat \in CmsCategories, type \in CmsDocTypes, mime \in CmsMimeTypes :
         IF is_selected(cat, type, mime)
         THEN LET h == [hist EXCEPT
                          !.badSelected = @ \/ cat \notin supportedCMSDocCategories
                                            \/ type \notin supportedDocTypes
                                            \/ mime \notin supportedMimeTypes]
              IN \/ LogRaises(h)
                 \/ Raise(Exc("HTTPError", "document download failed"), h)
                 \/ /\ pc' = "urn_filter"
                    /\ loc' = [loc EXCEPT !.docIdx = @ + 1,
                                          !.selected = Append(@, CmsDoc(CurrentUrn, loc.docIdx))]
                    /\ hist' = [h EXCEPT !.cms = Append(@, <<"download", CmsDocId(CurrentUrn, loc.docIdx)>>)]
                    /\ UNCHANGED <<inp, db, sess, ids, blobs, out, runs>>
         ELSE /\ pc' = "urn_filter"
              /\ loc' = [loc EXCEPT !.docIdx = @ + 1]
              /\ UNCHANGED <<inp, db, sess, ids, blobs, out, hist, runs>>

\* f"{case_id}" of an id of the case system, or of None
format(id) == IF id = NoId THEN "None" ELSE ToString(id)

\* after the loop: no selected document is a failure; otherwise the defendants are fetched
urn_defendants ==
    /\ pc = "urn_filter"
    /\ loc.docIdx > loc.nDocs
    /\ IF loc.selected = <<>>
       THEN /\ UrnReturn(IngestionResult(FALSE, <<"No document selected for case ",
                                                   format(loc.case_id)>>),
                         [hist EXCEPT !.filtered = "none"])
            /\ UNCHANGED <<inp, db, sess, ids, blobs, runs>>
       ELSE LET h == [hist EXCEPT !.filtered = "some",
                                  !.cms = Append(@, <<"defendants", CurrentUrn>>)]
            IN \/ \E n \in {0, 1}, o \in {0, 1} :
                    /\ o <= n
                    /\ pc' = "store_case"
                    /\ loc' = [loc EXCEPT !.nDef = n, !.nOff = o,
                                          !.caseRes = IngestionResult(TRUE, NoError)]
                    /\ hist' = h
                    /\ UNCHANGED <<inp, db, sess, ids, blobs, out, runs>>
               \/ Raise(Exc("TypeError", "object of type 'NoneType' has no len()"), h)
               \/ Raise(Exc("TypeError", "CMSClient.get_case_defendants() got an unexpected keyword argument 'include_offences'"),
                        [hist EXCEPT !.filtered = "some"])
               \/ Raise(Exc("Exception", "defendants request raised"),
                        [hist EXCEPT !.filtered = "some"])

\* ---- _store_and_process_case -------------------------------------------

\* case_data: urn and id, and the summary's fields when a summary came back;
\* area_name (like unit_name) is no column of Case
case_data(u, case_id, hasSummary) ==
    IF hasSummary
    THEN [id |-> case_id, urn |-> UrnNames[u], finalised |-> "True", area_name |-> "Area"]
    ELSE [id |-> case_id, urn |-> UrnNames[u]]

defendant_data(u, case_id) == [id |-> CmsDefendantId(u), case_id |-> case_id]

charge_data(u) == [id |-> CmsChargeId(u), defendant_id |-> CmsDefendantId(u)]

offence_data(u) == [id |-> CmsOffenceId(u), defendant_id |-> CmsDefendantId(u)]

\* the defendant, charge and offence upserts of the first session: n defendants,
\* each with one charge and, when the record of the case system carries the key
\* 'offences', o offences
store_defendants(d, u, case_id, n, o) ==
    IF n = 0 THEN d
    ELSE [d EXCEPT !.defendants = upsert(@, DefendantDefaults, defendant_data(u, case_id), NoId),
                   !.charges = upsert(@, ChargeDefaults, charge_data(u), NoId),
                   !.offences = IF o = 0 THEN @
                                ELSE upsert(@, OffenceDefaults, offence_data(u), NoId)]

\* the first session: the case, its defendants, their charges and offences,
\* committed together; a failure after the case was flushed leaves the case
\* sequence advanced when the case system gave no id.  With an id the upsert
\* begins with a select, which takes a connection before the statement is
\* compiled (an unreachable database raises first, models that cannot be
\* configured next); without an id it begins by building a Case, which
\* configures the mappers before anything reaches the database.  `result.case_id = case.id` sets an attribute the result record
\* does not otherwise have; result.case_ids stays empty.
store_case ==
    /\ pc = "store_case"
    /\ LET kw == case_data(CurrentUrn, loc.case_id, loc.hasSummary)
           flushed == [ids EXCEPT !.cases = UpsertNext(db.cases, kw, @)]
       IN \/ MapperRaises(hist)
          \/ /\ Unmapped => loc.case_id # NoId
             /\ DbRaises(hist)
          \/ /\ ~Unmapped
             /\ UpsertRaises(db.cases, CaseDefaults, kw)
             /\ Raise(Exc("TypeError", "'area_name' is an invalid keyword argument for Case"), hist)
          \/ /\ ~Unmapped
             /\ ~UpsertRaises(db.cases, CaseDefaults, kw)
             /\ loc.nDef > 0 /\ loc.case_id = NoId
             /\ RaiseAfter(Exc("IntegrityError", "null value in column case_id"), hist, flushed)
          \/ /\ ~Unmapped
             /\ ~UpsertRaises(db.cases, CaseDefaults, kw)
             /\ DbRaisesAfter(hist, flushed)
          \/ /\ ~Unmapped
             /\ ~UpsertRaises(db.cases, CaseDefaults, kw)
             /\ loc.nDef > 0 => loc.case_id # NoId
             /\ db' = store_defendants(
                        [db EXCEPT !.cases = upsert(@, CaseDefaults, kw, ids.cases)],
                        CurrentUrn, loc.case_id, loc.nDef, loc.nOff)
             /\ ids' = [ids EXCEPT !.cases = UpsertNext(db.cases, kw, @)]
             /\ loc' = [loc EXCEPT !.caseRow = UpsertId(db.cases, kw, ids.cases), !.docIdx = 1]
             /\ hist' = [hist EXCEPT !.supplied =
                            IF loc.case_id # NoId THEN @ \cup {<<"cases", loc.case_id>>} ELSE @]
             /\ pc' = "store_upload"
             /\ UNCHANGED <<inp, sess, blobs, out, runs>>

source_blob_name(doc) == RawBlob(inp.experiment_id, loc.caseRow, doc.id, doc.versionId)

\* one pass of the upload loop
store_upload_raw ==
    /\ pc = "store_upload"
    /\ loc.docIdx <= Len(loc.selected)
    /\ \/ BlobRaises(hist)
       \/ /\ blobs' = save_blob(blobs, inp.blob, source_blob_name(loc.selected[loc.docIdx]))
          /\ loc' = [loc EXCEPT !.docIdx = @ + 1]
          /\ UNCHANGED <<pc, inp, db, sess, ids, out, hist, runs>>

document_kw(doc) == [id |-> doc.id, case_id |-> loc.caseRow, original_file_name |-> "document"]

version_kw(doc) == [id |-> doc.versionId, document_id |-> doc.id,
                    source_blob_name |-> source_blob_name(doc)]

RECURSIVE store_documents_from(_, _, _)
\* the document and version upserts of the second session, in list order
store_documents_from(d, docs, i) ==
    IF i > Len(docs) THEN d
    ELSE store_documents_from(
            [d EXCEPT !.documents = upsert(@, DocumentDefaults, document_kw(docs[i]), NoId),
                      !.versions = upsert(@, VersionDefaults, version_kw(docs[i]), NoId)],
            docs, i + 1)

VersionOf(doc) == [id |-> doc.versionId, document_id |-> doc.id,
                   source_blob_name |-> source_blob_name(doc)]

\* the second session: documents and versions, committed together
store_documents ==
    /\ pc = "store_upload"
    /\ loc.docIdx > Len(loc.selected)
    /\ \/ DbRaises(hist)
       \/ /\ db' = store_documents_from(db, loc.selected, 1)
          /\ loc' = [loc EXCEPT !.versions = [i \in DOMAIN loc.selected |-> VersionOf(loc.selected[i])],
                                !.verIdx = 1]
          /\ hist' = [hist EXCEPT !.supplied = @
                         \cup {<<"documents", loc.selected[i].id>> : i \in DOMAIN loc.selected}
                         \cup {<<"versions", loc.selected[i].versionId>> : i \in DOMAIN loc.selected}]
          /\ pc' = "store_loop"
          /\ UNCHANGED <<inp, sess, ids, blobs, out, runs>>

\* the loop over the stored versions
store_process_next ==
    /\ pc = "store_loop"
    /\ IF loc.verIdx <= Len(loc.versions)
       THEN /\ pc' = "pv_load"
            /\ loc' = [loc EXCEPT !.version = loc.versions[loc.verIdx], !.caller = "case",
                                  !.verRes = IngestionResult(TRUE, NoError)]
            /\ hist' = [hist EXCEPT !.started = Append(@, loc.versions[loc.verIdx].id)]
            /\ UNCHANGED <<inp, db, sess, ids, blobs, out, runs>>
       ELSE /\ UrnReturn(loc.caseRes, hist)
            /\ UNCHANGED <<inp, db, sess, ids, blobs, runs>>

\* `if doc_result.success:` extend the three lists
store_collect(result, doc_result) ==
    IF doc_result.success
    THEN [result EXCEPT !.document_ids = @ \o doc_result.document_ids,
                        !.version_ids = @ \o doc_result.version_ids,
                        !.section_ids = @ \o doc_result.section_ids]
    ELSE result

\* ---- _process_version ---------------------------------------------------

\* tenacity's stop_after_attempt: no further attempt after this one failed
stop_after_attempt(attempt) == attempt >= MaxAttempts

\* one attempt of a call decorated with @retry failed with e
RetryFailed(e, h) ==
    IF stop_after_attempt(loc.attempt)
    THEN Raise(RetryError(e), [h EXCEPT !.failedVersion = loc.version.id])
    ELSE /\ loc' = [loc EXCEPT !.attempt = @ + 1]
         /\ hist' = h
         /\ UNCHANGED <<pc, inp, db, sess, ids, blobs, out, runs>>

\* the history after an attempt of a retried call succeeded
Retried(h) == [h EXCEPT !.retried = @ \/ loc.attempt > 1]

\* load_blob and the audit record that follows it
pv_load_blob ==
    /\ pc = "pv_load"
    /\ IF loc.version.source_blob_name \in blobs
       THEN \/ LogRaises(hist)
            \/ /\ pc' = "pv_parse"
               /\ loc' = [loc EXCEPT !.attempt = 1]
               /\ UNCHANGED <<inp, db, sess, ids, blobs, out, hist, runs>>
       ELSE Raise(Exc("ResourceNotFoundError", "The specified blob does not exist"), hist)

\* one attempt of __parse
pv_parse ==
    /\ pc = "pv_parse"
    /\ \/ RetryFailed(Exc("HttpResponseError", "document parse failed"), hist)
       \/ /\ pc' = "pv_save_parsed"
          /\ hist' = Retried(hist)
          /\ UNCHANGED <<inp, loc, db, sess, ids, blobs, out, runs>>

pv_save_parsed ==
    /\ pc = "pv_save_parsed"
    /\ \/ BlobRaises(hist)
       \/ /\ blobs' = save_blob(blobs, inp.blob, ParsedBlob(loc.version.source_blob_name))
          /\ pc' = "pv_update_version"
          /\ UNCHANGED <<inp, loc, db, sess, ids, out, hist, runs>>

parsed_kw(version) == [id |-> version.id,
                       parsed_blob_name |-> ParsedBlob(version.source_blob_name)]

\* the session that records the parsed blob on the version; the two ids are
\* appended to the result after it committed
pv_update_version ==
    /\ pc = "pv_update_version"
    /\ \/ DbRaises(hist)
       \/ /\ db' = [db EXCEPT !.versions = upsert(@, VersionDefaults, parsed_kw(loc.version), ids.versions)]
          /\ ids' = [ids EXCEPT !.versions = UpsertNext(db.versions, parsed_kw(loc.version), @)]
          /\ loc' = [loc EXCEPT !.verRes.document_ids = Append(@, loc.version.document_id),
                                !.verRes.version_ids = Append(@, loc.version.id),
                                !.attempt = 0]
          /\ pc' = "pv_extract"
          /\ UNCHANGED <<inp, sess, blobs, out, hist, runs>>

IsValidNarrative(content) == is_valid_subset(DocText, content)

\* what the LLM answers to __extract: SectionContent.narratives, a list or None
SectionContent(narratives) == [none |-> FALSE, narratives |-> narratives]
NoNarratives == [none |-> TRUE, narratives |-> <<>>]

KeepsEveryCandidate(context_text, sections_data) == sections_data.narratives

\* _extract_sections after the prompt is rendered: __extract gives [] for a
\* missing or empty list, then the loop keeps the contents that pass the validator
_extract_sections(context_text, sections_data) ==
    IF sections_data.none \/ Len(sections_data.narratives) = 0 THEN <<>>
    ELSE SelectSeq(sections_data.narratives,
                   LAMBDA content : is_valid_subset(context_text, content))

Narratives == UNION {[1 .. n -> CandidateTexts] : n \in 0 .. MaxSections}

\* _extract_sections: the audit record and the prompt template come first
\* (attempt 0), then the attempts of __extract; the narratives that pass the
\* validator are kept, in order
pv_extract ==
    /\ pc = "pv_extract"
    /\ \/ /\ loc.attempt = 0
          /\ \/ LogRaises(hist)
             \/ Raise(Exc("ValueError", "No prompt template found for agent 'section_extractor'"), hist)
             \/ /\ loc' = [loc EXCEPT !.attempt = 1]
                /\ UNCHANGED <<pc, inp, db, sess, ids, blobs, out, hist, runs>>
       \/ /\ loc.attempt > 0
          /\ \/ RetryFailed(Exc("APIError", "section extraction failed"), hist)
             \/ \E narratives \in Narratives :
                  /\ Len(narratives) <= hist.narrativesLeft
                  /\ pc' = "pv_session"
                  /\ loc' = [loc EXCEPT !.sections_data =
                                 _extract_sections(DocText, SectionContent(narratives))]
                  /\ hist' = [Retried(hist) EXCEPT !.narrativesLeft = @ - Len(narratives)]
                  /\ UNCHANGED <<inp, db, sess, ids, blobs, out, runs>>

\* the experiment of the run: the supplied id is upserted, none creates one
pv_open_session ==
    /\ pc = "pv_session"
    /\ \/ DbRaises(hist)
       \/ LET exp == IF inp.experiment_id # NoExperiment THEN inp.experiment_id
                     ELSE AutoExperiment(ids.experiments)
          IN /\ sess' = <<[db EXCEPT !.experiments = experiment_upsert(@, exp)]>>
             /\ ids' = [ids EXCEPT !.experiments = IF inp.experiment_id # NoExperiment THEN @ ELSE @ + 1]
             /\ loc' = [loc EXCEPT !.experiment = exp, !.secIdx = 1, !.attempt = 0]
             /\ pc' = IF loc.sections_data = <<>> THEN "pv_commit" ELSE "pv_redact"
             /\ UNCHANGED <<inp, db, blobs, out, hist, runs>>

\* _redact_content, called while the section session is open: the prompt
\* template first (attempt 0), then the attempts of _redact
pv_redact ==
    /\ pc = "pv_redact"
    /\ \/ /\ loc.attempt = 0
          /\ \/ Raise(Exc("ValueError", "No prompt template found for agent 'redactor'"), hist)
             \/ /\ loc' = [loc EXCEPT !.attempt = 1]
                /\ UNCHANGED <<pc, inp, db, sess, ids, blobs, out, hist, runs>>
       \/ /\ loc.attempt > 0
          /\ \/ RetryFailed(Exc("APIError", "redaction failed"), hist)
             \/ /\ pc' = "pv_section_create"
                /\ loc' = [loc EXCEPT !.redacted = RedactedText]
                /\ hist' = Retried(hist)
                /\ UNCHANGED <<inp, db, sess, ids, blobs, out, runs>>

section_kw == [version_id |-> loc.version.id, document_id |-> loc.version.document_id,
               experiment_id |-> loc.experiment, redacted_content |-> loc.redacted]

\* section_repo.upsert without an id: a new row, flushed to obtain its id
pv_section_create ==
    /\ pc = "pv_section_create"
    /\ \/ DbRaises(hist)
       \/ /\ sess' = <<[sess[1] EXCEPT !.sections = upsert(@, SectionDefaults, section_kw, ids.sections)]>>
          /\ ids' = [ids EXCEPT !.sections = UpsertNext(sess[1].sections, section_kw, @)]
          /\ loc' = [loc EXCEPT !.section = UpsertId(sess[1].sections, section_kw, ids.sections)]
          /\ pc' = "pv_section_blob"
          /\ UNCHANGED <<inp, db, blobs, out, hist, runs>>

content_blob_name == SectionBlob(inp.storage, loc.experiment, loc.version.id, loc.section)

\* save_blob(container_name=self.settings.storage.blob_container_name_section, ...):
\* the arguments are evaluated before the call, so the missing attribute
\* raises whether save_blob is a coroutine function or not
pv_section_blob ==
    /\ pc = "pv_section_blob"
    /\ IF ~hasattr(inp.storage, "blob_container_name_section")
       THEN Raise(AttributeError("blob_container_name_section"), hist)
       ELSE \/ BlobRaises(hist)
            \/ /\ blobs' = save_blob(blobs, inp.blob, content_blob_name)
               /\ pc' = "pv_section_update"
               /\ UNCHANGED <<inp, loc, db, sess, ids, out, hist, runs>>

\* section_repo.update with the blob pointer (container and name; the blob
\* record carries both); the section id joins the result
pv_section_update ==
    /\ pc = "pv_section_update"
    /\ \/ DbRaises(hist)
       \/ /\ ~hasattr(inp.storage, "blob_container_name_section")
          /\ Raise(AttributeError("blob_container_name_section"), hist)
       \/ /\ hasattr(inp.storage, "blob_container_name_section")
          /\ sess' = <<[sess[1] EXCEPT !.sections =
                          update(@, loc.section, [content_blob_name |-> content_blob_name])]>>
          /\ loc' = [loc EXCEPT !.verRes.section_ids = Append(@, loc.section),
                                !.secIdx = @ + 1, !.attempt = 0]
          /\ pc' = IF loc.secIdx < Len(loc.sections_data) THEN "pv_redact" ELSE "pv_commit"
          /\ UNCHANGED <<inp, db, ids, blobs, out, hist, runs>>

\* the section session commits and _process_version returns to its caller
pv_commit ==
    /\ pc = "pv_commit"
    /\ \/ DbRaises(hist)
       \/ /\ db' = sess[1]
          /\ sess' = <<>>
          /\ IF loc.caller = "case"
             THEN /\ pc' = "store_loop"
                  /\ loc' = [loc EXCEPT !.caseRes = store_collect(@, loc.verRes),
                                        !.verIdx = @ + 1]
                  /\ UNCHANGED <<out, hist>>
             ELSE Finish([loc.verRes EXCEPT !.case_ids = Append(@, loc.caseRow)], hist)
          /\ UNCHANGED <<inp, ids, blobs, runs>>

\* ---- _ingest_from_blob_name, _ingest_from_filepath ------------------------

placeholder_case == [urn |-> PlaceholderUrn]

\* one session: a case without an id, a document and a version pointing at
\* the blob.  Each create flushes and draws its id; when the next operation or
\* the commit fails the rows are rolled back and the sequences stay advanced.
blob_store ==
    /\ pc = "blob_store"
    /\ \/ MapperRaises(hist)
       \/ ~Unmapped /\ DbRaises(hist)
       \/ ~Unmapped /\ DbRaisesAfter(hist, [ids EXCEPT !.cases = @ + 1])
       \/ ~Unmapped /\ DbRaisesAfter(hist, [ids EXCEPT !.cases = @ + 1, !.documents = @ + 1])
       \/ ~Unmapped /\ DbRaisesAfter(hist, [ids EXCEPT !.cases = @ + 1, !.documents = @ + 1,
                                                       !.versions = @ + 1])
       \/ ~Unmapped /\
          LET doc == [case_id |-> ids.cases, original_file_name |-> "name"]
              ver == [document_id |-> ids.documents, source_blob_name |-> loc.blob_name]
          IN /\ db' = [db EXCEPT !.cases = upsert(@, CaseDefaults, placeholder_case, ids.cases),
                                 !.documents = upsert(@, DocumentDefaults, doc, ids.documents),
                                 !.versions = upsert(@, VersionDefaults, ver, ids.versions)]
             /\ ids' = [ids EXCEPT !.cases = @ + 1, !.documents = @ + 1, !.versions = @ + 1]
             /\ loc' = [loc EXCEPT !.caseRow = ids.cases, !.caller = "blob",
                                   !.version = [id |-> ids.versions, document_id |-> ids.documents,
                                                source_blob_name |-> loc.blob_name],
                                   !.verRes = IngestionResult(TRUE, NoError)]
             /\ pc' = "pv_load"
             /\ UNCHANGED <<inp, sess, blobs, out, hist, runs>>

file_read ==
    /\ pc = "file_read"
    /\ \/ /\ Finish(IngestionResult(FALSE, <<"Failed to read file: ", "No such file or directory">>), hist)
          /\ UNCHANGED <<inp, db, sess, ids, blobs, runs>>
       \/ /\ pc' = "file_upload"
          /\ UNCHANGED <<inp, loc, db, sess, ids, blobs, out, hist, runs>>

file_upload ==
    /\ pc = "file_upload"
    /\ \/ BlobRaises(hist)
       \/ /\ blobs' = save_blob(blobs, inp.blob, FileBlob)
          /\ loc' = [loc EXCEPT !.blob_name = FileBlob]
          /\ pc' = "blob_store"
          /\ UNCHANGED <<inp, db, sess, ids, out, hist, runs>>

\* ---- the ingestion specifications -----------------------------------------

UrnList(n) == [i \in 1 .. n |-> i]

Input(t, v, e, c, b, s) ==
    [trigger_type |-> t, value |-> v, experiment_id |-> e, cms |-> c, blob |-> b,
     storage |-> s.storage, defendant |-> s.defendant]

\* the process that calls ingest: its settings.storage and the relationships
\* of its Defendant class.  The repository's own is the first; the others have
\* what the repository lacks set before the packages are imported
Process(storage, relationships) == [storage |-> storage, defendant |-> relationships]

Processes ==
    {Process(StorageSettings, DefendantRelationships),
     Process(setattr(StorageSettings, OffencesTable), DefendantRelationships),
     Process(WithTables, DefendantRelationships),
     Process(WithAll, DefendantRelationships),
     Process(WithTables, WithOffences),
     Process(WithAll, WithOffences)}

ExperimentIds == {NoExperiment, SuppliedExperiment}
CallKinds == {"plain", "coroutine"}

SingleInputs ==
    {Input("urn", UrnList(1), e, c, b, s) :
        e \in ExperimentIds, c \in CallKinds, b \in CallKinds, s \in Processes}
    \cup {Input(t, <<>>, e, "plain", b, s) :
            t \in {"blob_name", "filepath", InvalidTrigger}, e \in ExperimentIds,
            b \in CallKinds, s \in Processes}

BatchInputs ==
    {Input("urn_list", UrnList(n), SuppliedExperiment, c, b, s) :
        n \in 0 .. MaxUrns, c \in CallKinds, b \in CallKinds, s \in Processes}

InitWith(inputs, budget) ==
    /\ pc = "import"
    /\ inp \in inputs
    /\ loc = InitLoc
    /\ db = EmptyDb
    /\ sess = <<>>
    /\ ids = InitIds
    /\ blobs \in (IF inp.trigger_type = "blob_name" THEN {{}, {GivenBlob}} ELSE {{}})
    /\ out = Running
    /\ hist = InitHist(db, blobs, budget)
    /\ runs = 1

Init == InitWith(SingleInputs \cup BatchInputs, <<MaxDocs, MaxSections, MaxDocs, MaxSections>>)

Next ==
    \/ import_models
    \/ ingest_route
    \/ cms_authenticate
    \/ batch_next
    \/ urn_resolve
    \/ urn_summary
    \/ urn_list_documents
    \/ urn_filter_download
    \/ urn_defendants
    \/ store_case
    \/ store_upload_raw
    \/ store_documents
    \/ store_process_next
    \/ pv_load_blob
    \/ pv_parse
    \/ pv_save_parsed
    \/ pv_update_version
    \/ pv_extract
    \/ pv_open_session
    \/ pv_redact
    \/ pv_section_create
    \/ pv_section_blob
    \/ pv_section_update
    \/ pv_commit
    \/ blob_store
    \/ file_read
    \/ file_upload

Spec == Init /\ [][Next]_vars

---------------------------------------------------------------------------
(* Properties of IngestionOrchestrator.ingest                              *)

Returned == pc = "done" /\ out.state = "returned"

NonEmptyMessage(error) == error # NoError /\ \A i \in DOMAIN error : error[i] # ""

\* C1: ingest never raises to its caller.  Whatever the trigger kind and
\* whichever collaborator fails at whichever step, the call ends by returning
\* a result; when an exception was raised inside it, or the trigger kind is
\* unknown, that result has success = false and a non-empty error message.
C1_IngestNeverRaises ==
    /\ out.state # "raised"
    /\ pc = "done" => out.state = "returned"
    /\ pc = "done" /\ (hist.exc # NoExc \/ inp.trigger_type \notin TriggerType)
         => /\ ~out.result.success
            /\ NonEmptyMessage(out.result.error)

\* a parse that failed on every attempt, inside a batch, ended as a returned failure
C1_Witness ==
    /\ Returned
    /\ inp.trigger_type = "urn_list"
    /\ hist.exc.type = "RetryError"
    /\ ~out.result.success

OnlyAuthenticate(requests) == \A i \in DOMAIN requests : requests[i][1] = "authenticate"

\* C2: ingestion by reference fails closed on authentication.  For the urn and
\* urn_list triggers, once authenticate has not succeeded (it returned false,
\* raised, or was never run because its coroutine was not awaited) the case
\* system receives no resolve, list or download request, no row and no blob is
\* written, and the call returns success = false.
C2_AuthFailsClosed ==
    inp.trigger_type \in {"urn", "urn_list"} /\ hist.auth \notin {"none", "True"}
      => /\ OnlyAuthenticate(hist.cms)
         /\ db = hist.db0
         /\ sess = <<>>
         /\ blobs = hist.blobs0
         /\ pc = "done" => ~out.result.success

\* C3: a listed document is selected only if its category, type and MIME type
\* are all on their allow-lists; and a single-reference ingestion whose
\* document loop selects nothing returns success = false and has created no
\* Case, Document, Version or Section row.
C3_FilterAndEmptySelection ==
    /\ ~hist.badSelected
    /\ pc = "done" /\ inp.trigger_type = "urn" /\ hist.filtered = "none"
         => /\ ~out.result.success
            /\ db.cases = hist.db0.cases
            /\ db.documents = hist.db0.documents
            /\ db.versions = hist.db0.versions
            /\ db.sections = hist.db0.sections

\* documents were listed and every one of them was filtered out
C3_Witness ==
    /\ Returned
    /\ inp.trigger_type = "urn"
    /\ hist.filtered = "none"
    /\ hist.nListed = MaxDocs
    /\ ~out.result.success

RECURSIVE ConcatIds(_, _)
ConcatIds(results, field) ==
    IF results = <<>> THEN <<>>
    ELSE ConcatIds(SubSeq(results, 1, Len(results) - 1), field) \o results[Len(results)][field]

\* an item of the batch failed: it returned a failure or it raised
ItemFailed == hist.failed # <<>> \/ hist.exc # NoExc

\* C4: batch ingestion is best-effort.  Once the loop over the references has
\* started, every reference is attempted exactly once in list order however an
\* earlier one failed; success is true iff every item succeeded; the id lists
\* are the concatenation of those of the successful items; the error is that
\* of the most recent failing item.
C4_BatchBestEffort ==
    pc = "done" /\ inp.trigger_type = "urn_list" /\ hist.attempted # <<>>
      => /\ hist.attempted = inp.value
         /\ out.result.success <=> ~ItemFailed
         /\ out.result.document_ids = ConcatIds(hist.succeeded, "document_ids")
         /\ out.result.version_ids = ConcatIds(hist.succeeded, "version_ids")
         /\ out.result.section_ids = ConcatIds(hist.succeeded, "section_ids")
         /\ hist.failed # <<>> /\ hist.exc = NoExc
              => out.result.error = <<"One or more URNs failed ingestion. Latest error: ">>
                                    \o hist.failed[Len(hist.failed)][2]

\* C5: retry policy of parse, extract and redact.  No call is attempted more
\* than 3 times; a call that succeeds after a failed attempt leaves no error in
\* an otherwise successful run; and when all 3 attempts fail the operation
\* fails and the error it reports is the underlying error of the failed call.
C5_RetryPolicy ==
    /\ loc.attempt <= MaxAttempts
    /\ pc = "done" /\ hist.retried /\ hist.exc = NoExc /\ hist.failed = <<>>
         => out.result.success /\ out.result.error = NoError
    /\ pc = "done" /\ hist.exc.type = "RetryError"
         => ~out.result.success /\ out.result.error = <<hist.exc.cause>>

\* the ids of the rows a table gained since the call started
NewIds(tbl, tbl0) == {tbl[i].id : i \in (DOMAIN tbl) \ (DOMAIN tbl0)}

SeqRange(ids_list) == {ids_list[i] : i \in DOMAIN ids_list}

\* C15: the id lists of a successful result name what the call persisted.  For
\* every trigger kind, when ingest returns success = true, the case id list
\* contains the id of every Case the call created, and the document, version
\* and section id lists are the ids of the versions that were processed and
\* of the sections created for them.
C15_IdListsNamePersisted ==
    pc = "done" /\ out.state = "returned" /\ out.result.success
      => /\ NewIds(db.cases, hist.db0.cases) \subseteq SeqRange(out.result.case_ids)
         /\ SeqRange(out.result.document_ids) = NewIds(db.documents, hist.db0.documents)
         /\ SeqRange(out.result.version_ids) = NewIds(db.versions, hist.db0.versions)
         /\ SeqRange(out.result.section_ids) = NewIds(db.sections, hist.db0.sections)

\* the failure of an audit log call
AuditFailure == Exc("OperationalError", "audit log failed")

\* C16: the audit sink is best-effort.  A failing audit log call never
\* changes the outcome of the flow: the flow goes on as in the run where the
\* call succeeded, so no call of the orchestrator ends, and no result reports
\* an error, because an audit log call failed.
C16_AuditBestEffort ==
    /\ hist.exc # AuditFailure
    /\ pc = "done" /\ out.state = "returned" /\ inp.trigger_type \in TriggerType
         => out.result.error # Str(AuditFailure)

\* C17: per-version failure isolation.  When, in the ingestion of a case with
\* several documents, the processing of one version fails because a parse,
\* extract or redact call exhausted its retries, the ids of that version are
\* not in the result, every other version of the case is still processed, and
\* the ids of those that succeed are in the result.
C17_VersionFailureIsolated ==
    pc = "done" /\ inp.trigger_type = "urn" /\ hist.failedVersion # NoId
      => /\ hist.failedVersion \notin SeqRange(out.result.version_ids)
         /\ NewIds(db.versions, hist.db0.versions) \subseteq SeqRange(hist.started)
         /\ SeqRange(hist.started) \ {hist.failedVersion}
               \subseteq SeqRange(out.result.version_ids)

\* ---- ingest called again on the same stores -------------------------------

\* what the calls still to come may list and extract, after this one
Unused(h) ==
    <<h.budget[1] - (Least(h.budget[1], h.budget[3]) - h.docsLeft),
      h.budget[2] - (Least(h.budget[2], h.budget[4]) - h.narrativesLeft),
      h.budget[3], h.budget[4]>>

\* the caller invokes ingest once more with the same arguments
NewRun ==
    /\ pc = "done"
    /\ runs < MaxRuns
    /\ pc' = "start"
    /\ runs' = runs + 1
    /\ out' = Running
    /\ hist' = [InitHist(db, blobs, Unused(hist)) EXCEPT
                    !.configure_failed = hist.configure_failed]
    /\ UNCHANGED <<inp, loc, db, sess, ids, blobs>>

\* the experiment is supplied when ingesting by reference: the rows re-ingestion
\* finds again do not depend on it; the settings are those of the repository or
\* name every table and container the calls read
InitRerun ==
    InitWith({i \in SingleInputs :
                /\ Process(i.storage, i.defendant)
                     \in {Process(StorageSettings, DefendantRelationships),
                          Process(WithAll, DefendantRelationships),
                          Process(WithAll, WithOffences)}
                /\ i.trigger_type = "urn" => i.experiment_id = SuppliedExperiment},
             <<MaxDocs, MaxSections, MaxRerunDocs, MaxRerunSections>>)

NextRerun == Next \/ NewRun

SpecRerun == InitRerun /\ [][NextRerun]_vars

IdsOf(tbl) == {tbl[i].id : i \in DOMAIN tbl}

IsPrefix(s, t) == Len(s) <= Len(t) /\ SubSeq(t, 1, Len(s)) = s

\* the database as the open session sees it, and as everyone else sees it
Views == {db} \cup {sess[i] : i \in DOMAIN sess}

\* C22: two-phase section persistence.  While the content blob of a section is
\* being written and until its pointer is set, the Section row exists in the
\* session without a content pointer; in every state a Section row whose
\* content pointer is set, committed or not, has that blob in the content
\* store, and a Version row whose parsed-content pointer is set has the
\* parsed output in the content store.
C22_TwoPhaseSectionPersistence ==
    /\ pc \in {"pv_section_blob", "pv_section_update"}
         => \E i \in DOMAIN sess[1].sections :
              /\ sess[1].sections[i].id = loc.section
              /\ sess[1].sections[i].content_blob_name = NoBlob
    /\ \A d \in Views :
         /\ \A i \in DOMAIN d.sections :
              d.sections[i].content_blob_name # NoBlob
                => d.sections[i].content_blob_name \in blobs
         /\ \A i \in DOMAIN d.versions :
              d.versions[i].parsed_blob_name # NoBlob
                => d.versions[i].parsed_blob_name \in blobs

\* the flow is about to issue a parse, LLM or content-store call
RemoteCallNext ==
    \/ pc \in {"store_upload", "file_upload", "pv_load", "pv_parse", "pv_save_parsed"}
    \/ pc = "pv_section_blob" /\ hasattr(inp.storage, "blob_container_name_section")
    \/ pc \in {"pv_extract", "pv_redact"} /\ loc.attempt > 0

\* C23: no database session is open while a remote call is in progress.  At
\* the moment the ingestion flow issues a parse call, an LLM call (extract,
\* redact) or a content-store call, no session that the flow opened is still
\* open.
C23_NoSessionAcrossRemoteCall ==
    RemoteCallNext => sess = <<>>

\* the version ids of the Section rows this call has committed
NewSectionVersions ==
    {db.sections[i].version_id : i \in (DOMAIN db.sections) \ (DOMAIN hist.db0.sections)}

\* _process_version is running for loc.version and has not returned
InVersion == pc \in {"pv_load", "pv_parse", "pv_save_parsed", "pv_update_version",
                     "pv_extract", "pv_session", "pv_redact", "pv_section_create",
                     "pv_section_blob", "pv_section_update", "pv_commit"}

\* C24: a failed version leaves no partial results.  No Section row of a
\* version is committed while the version is still being processed, so when
\* the processing of a version fails at any point, whatever the number of
\* sections already created in the session, none of the Section rows created
\* for that version in this call is persisted.
C24_FailedVersionLeavesNoSections ==
    /\ InVersion => loc.version.id \notin NewSectionVersions
    /\ pc = "done" /\ hist.exc # NoExc /\ inp.trigger_type = "urn" /\ hist.started # <<>>
         => hist.started[Len(hist.started)] \notin NewSectionVersions
    /\ pc = "done" /\ hist.exc # NoExc /\ inp.trigger_type \in {"blob_name", "filepath"}
         => NewSectionVersions = {}

\* the redaction of a later section exhausted its retries after a Section row
\* had been created in the session: the row is gone
C24_Witness ==
    /\ pc = "done"
    /\ inp.trigger_type = "urn"
    /\ hist.exc = RetryError(Exc("APIError", "redaction failed"))
    /\ ids.sections > InitIds.sections + Len(db.sections)
    /\ hist.started # <<>>
    /\ db.sections = hist.db0.sections

\* the download of document id was answered
Downloaded(id) == \E i \in DOMAIN hist.cms : hist.cms[i] = <<"download", id>>

\* the document loop of this call ended with every selected document downloaded
AllDownloaded == hist.filtered = "some"

\* C21: download precedes persistence.  In an ingestion by one reference, as
\* long as the document loop has not ended with every selected document
\* downloaded, the Case, Defendant, Charge, Offence, Document and Version rows
\* and the content store are what they were when the call started and no
\* write is pending; so a call that ends in a failed download has changed
\* neither.
C21_DownloadPrecedesPersistence ==
    inp.trigger_type = "urn" /\ ~AllDownloaded
      => /\ \A t \in {"cases", "defendants", "charges", "offences", "documents", "versions"} :
              db[t] = hist.db0[t]
         /\ blobs = hist.blobs0
         /\ sess = <<>>

\* the first selected document was downloaded, the download of the next one
\* failed, and the stores are as the call found them
C21_Witness ==
    /\ pc = "done"
    /\ inp.trigger_type = "urn"
    /\ hist.exc.msg = "document download failed"
    /\ Downloaded(CmsDocId(1, 1))
    /\ db = hist.db0
    /\ blobs = hist.blobs0

\* C6: re-ingestion is idempotent on supplied ids.  However many times ingest
\* ran on the same stores, every case, document and version id supplied by the
\* case system has exactly one row, the rows a run found keep their place and
\* their id, and a successful run by reference appends one new Section row per
\* section id it reports, leaving the earlier Section rows as they were.
C6_ReingestIdempotent ==
    /\ \A s \in hist.supplied : Cardinality(RowsWithId(db[s[1]], s[2])) = 1
    /\ \A t \in {"cases", "documents", "versions"} :
         /\ Len(hist.db0[t]) <= Len(db[t])
         /\ \A i \in DOMAIN hist.db0[t] : db[t][i].id = hist.db0[t][i].id
         /\ Len(db[t]) <= Len(hist.db0[t])
                + Cardinality({s \in hist.supplied : s[1] = t /\ ~exists(hist.db0[t], s[2])})
                + (IF t = "cases" /\ <<"cases", CmsCaseId(1)>> \notin hist.supplied THEN 1 ELSE 0)
                + (IF inp.trigger_type \in {"blob_name", "filepath"} THEN 1 ELSE 0)
    /\ IsPrefix(hist.db0.sections, db.sections)
    /\ pc = "done" /\ out.result.success /\ inp.trigger_type = "urn"
         => /\ Len(db.sections) = Len(hist.db0.sections) + Len(out.result.section_ids)
            /\ \A i \in DOMAIN out.result.section_ids :
                 /\ out.result.section_ids[i] \notin IdsOf(hist.db0.sections)
                 /\ exists(db.sections, out.result.section_ids[i])

\* the second run on the same ids succeeded: the Case row it found was updated
\* in place and Section rows were appended to those of the first run
C6_Witness ==
    /\ Returned
    /\ runs = 2
    /\ inp.trigger_type = "urn"
    /\ out.result.success
    /\ exists(hist.db0.cases, CmsCaseId(1))
    /\ <<"cases", CmsCaseId(1)>> \in hist.supplied
    /\ Len(db.cases) = 1
    /\ Len(db.versions) = 1
    /\ hist.db0.sections # <<>>
    /\ Len(db.sections) > Len(hist.db0.sections)

\* C18: a Case is created once per external reference.  After any number of
\* ingestions, by reference, by blob name or by file path, no two Case rows
\* carry the same reference (URN); the placeholder reference of the blob and
\* file triggers included.
C18_OneCasePerReference ==
    \A i, j \in DOMAIN db.cases : db.cases[i].urn = db.cases[j].urn => i = j

---------------------------------------------------------------------------
(* AnalysisOrchestrator, src/src/analysis/orchestrator.py                  *)

DEFAULT_TASKS == <<"theme1-appropriateness", "theme1-emotional", "theme1-judgemental",
                   "theme1-not_fact", "theme1-relevant", "theme1-tropes_context",
                   "theme1-tropes_grounded", "theme2-adultification", "theme2-judgemental",
                   "theme2-probative", "theme2-risk", "theme2-tropes", "theme2-victim">>

\* the tasks the orchestrator is constructed with; task_dict keeps their order
task_dict == SubSeq(DEFAULT_TASKS, 1, MaxTasks)

Range(f) == {f[i] : i \in DOMAIN f}

UnknownTask == "unknown-task"

InRegistry(tid) == tid \in Range(task_dict)

ResolvesToRegistry(given, task_ids) == task_dict

\* the first statement of analyze: `if task_ids:` keeps the requested ids that
\* are registered, in request order; None and the empty list give every task
tasks_to_run(given, task_ids) ==
    IF given /\ task_ids # <<>>
    THEN SelectSeq(task_ids, InRegistry)
    ELSE task_dict

\* ','.join(ids)
join(tids) == [i \in 1 .. (IF tids = <<>> THEN 0 ELSE 2 * Len(tids) - 1) |->
                  IF i % 2 = 1 THEN tids[(i + 1) \div 2] ELSE ","]

AnalysisJobDefaults == [id |-> NoId, experiment_id |-> NoExperiment, section_id |-> NoId,
                        task_ids |-> <<>>]
\* a column or dictionary key without a value (None, or the key is missing)
Absent == <<>>

\* pattern_id stands for the theme and pattern of the task that produced the row
AnalysisResultDefaults == [id |-> NoId, analysis_job_id |-> NoId, pattern_id |-> "",
                           content |-> Absent, justification |-> Absent,
                           is_witness |-> Absent, rewritten_phrase |-> Absent,
                           defence_verdict |-> Absent, reviewer_final_verdict |-> Absent]

AnInitLoc == [tasks |-> <<>>, idx |-> 0, job |-> NoId, experiment_id |-> NoExperiment]

AnInitHist(d) ==
    [exc |-> NoExc,        \* the exception that ended the call, if one did
     started |-> <<>>,     \* the tasks whose worker was invoked, in order
     persisted |-> <<>>,   \* the result rows the workers committed, in order
     failedTask |-> 0,     \* the position in the job of the task whose worker raised
     db0 |-> d]

\* the handler `analysis` of src/src/api/analysis.py around analyze_section:
\* it has no except clause, so an exception of init_database or of the
\* orchestrator leaves it as it came; a returned job becomes a response of
\* status "success"
analysis(outcome) ==
    IF outcome.state = "raised" THEN outcome
    ELSE [state |-> "returned", result |-> outcome.result, status |-> "success"]

\* what the caller of the entry point gets
AnOutcome(outcome) == IF inp.entry = "analysis" THEN analysis(outcome) ELSE outcome

\* an exception leaves analyze or analyze_section: nothing catches it for good
AnRaise(e, h) ==
    /\ pc' = "done"
    /\ out' = AnOutcome([state |-> "raised", result |-> NoId])
    /\ hist' = [h EXCEPT !.exc = e]
    /\ loc' = AnInitLoc

\* the models of the process cannot be configured: its first use of a mapped
\* class raises
AnUnmapped == configure_mappers(inp.defendant, FALSE) # NoExc

\* the first statement of the handler: init_session_manager() without a
\* connection string.  SessionManager.__init__ builds the string from the
\* settings: the credential is asked for a token, then the f-string reads
\* settings.database; create_engine connects to nothing.  With the
\* DatabaseSettings of the repository the read of `username` raises, on every
\* call and before any engine exists
init_session_manager ==
    /\ pc = "an_init"
    /\ \/ AnRaise(Exc("ClientAuthenticationError", "credential unavailable"), hist)
       \/ /\ get_connection_string(inp.database, Token).type = "AttributeError"
          /\ AnRaise(get_connection_string(inp.database, Token), hist)
       \/ /\ get_connection_string(inp.database, Token).type = "str"
          /\ pc' = "an_create_all"
          /\ UNCHANGED <<loc, out, hist>>
    /\ UNCHANGED <<inp, db, sess, ids, blobs, runs>>

\* the second statement of the handler: init_database(), which is create_all:
\* it connects, creates the tables that are missing and touches no row.  It
\* reads the table metadata only, so it does not configure the mappers
init_database ==
    /\ pc = "an_create_all"
    /\ \/ AnRaise(Exc("OperationalError", "database unavailable"), hist)
       \/ /\ pc' = "an_section"
          /\ UNCHANGED <<loc, out, hist>>
    /\ UNCHANGED <<inp, db, sess, ids, blobs, runs>>

\* analyze_section: the section row, the experiment upsert, the section text.
\* get_by_id executes a select: the session takes its connection first (an
\* unreachable database raises OperationalError in every process) and compiles
\* the statement next (models that cannot be configured raise there)
analyze_section ==
    /\ pc = "an_section"
    /\ \/ /\ AnUnmapped
          /\ AnRaise(configure_mappers(inp.defendant, FALSE), hist)
          /\ UNCHANGED <<inp, db, sess, ids, blobs, runs>>
       \/ /\ AnRaise(Exc("OperationalError", "database unavailable"), hist)
          /\ UNCHANGED <<inp, db, sess, ids, blobs, runs>>
       \/ /\ ~AnUnmapped
          /\ ~exists(db.sections, inp.section_id)
          /\ AnRaise(Exc("ValueError",
                         "Section " \o ToString(inp.section_id) \o " not found"), hist)
          /\ UNCHANGED <<inp, db, sess, ids, blobs, runs>>
       \/ /\ ~AnUnmapped
          /\ exists(db.sections, inp.section_id)
          /\ LET section == db.sections[CHOOSE i \in DOMAIN db.sections :
                                           db.sections[i].id = inp.section_id]
                 exp == IF inp.experiment_id # NoExperiment THEN inp.experiment_id
                        ELSE section.experiment_id
             IN /\ db' = [db EXCEPT !.experiments = experiment_upsert(@, exp)]
                /\ IF section.content_blob_name \in blobs
                   THEN /\ pc' = "an_job"
                        /\ loc' = [loc EXCEPT !.experiment_id = exp]
                        /\ UNCHANGED <<out, hist>>
                   ELSE AnRaise(Exc("ResourceNotFoundError", "The specified blob does not exist"), hist)
          /\ UNCHANGED <<inp, sess, ids, blobs, runs>>

job_kw == [section_id |-> inp.section_id, experiment_id |-> loc.experiment_id,
           task_ids |-> join(tasks_to_run(inp.given, inp.task_ids))]

JobOverwritesPerSection(tbl, kw, fresh) ==
    IF \E i \in DOMAIN tbl : tbl[i].section_id = kw.section_id
    THEN [i \in DOMAIN tbl |->
            IF tbl[i].section_id = kw.section_id
            THEN [tbl[i] EXCEPT !.task_ids = kw.task_ids, !.experiment_id = kw.experiment_id]
            ELSE tbl[i]]
    ELSE create(tbl, AnalysisJobDefaults, kw, fresh)

\* job_repo.create(section_id, experiment_id, task_ids): always a new row
job_create(tbl, kw, fresh) == create(tbl, AnalysisJobDefaults, kw, fresh)

\* analyze, up to the committed AnalysisJob row.  The row is flushed by
\* create (its id drawn from the sequence), committed by session.commit() and
\* read back by session.refresh; the with block then commits once more.  A
\* failure before the flush leaves nothing; at the flush or the commit it
\* leaves the sequence advanced and no row; at the refresh or the last commit
\* it leaves the committed row, and analyze raises all the same.
analyze_create_job ==
    /\ pc = "an_job"
    /\ \/ /\ AnUnmapped
          /\ AnRaise(configure_mappers(inp.defendant, FALSE), hist)
          /\ UNCHANGED <<inp, db, sess, ids, blobs, runs>>
       \/ /\ ~AnUnmapped
          /\ AnRaise(Exc("OperationalError", "database unavailable"), hist)
          /\ \/ UNCHANGED <<db, ids>>
             \/ /\ ids' = [ids EXCEPT !.analysisjobs = @ + 1]
                /\ \/ db' = db
                   \/ db' = [db EXCEPT !.analysisjobs =
                                job_create(@, job_kw, ids.analysisjobs)]
          /\ UNCHANGED <<inp, sess, blobs, runs>>
       \/ /\ ~AnUnmapped
          /\ db' = [db EXCEPT !.analysisjobs = job_create(@, job_kw, ids.analysisjobs)]
          /\ ids' = [ids EXCEPT !.analysisjobs = @ + 1]
          /\ loc' = [loc EXCEPT !.tasks = tasks_to_run(inp.given, inp.task_ids),
                                !.job = ids.analysisjobs, !.idx = 1]
          /\ pc' = "an_begin"
          /\ UNCHANGED <<inp, sess, blobs, out, hist, runs>>

\* the ANALYSIS_JOB_BEGIN audit record
analyze_log_begin ==
    /\ pc = "an_begin"
    /\ \/ /\ AnRaise(Exc("OperationalError", "audit log failed"), hist)
          /\ UNCHANGED <<inp, db, sess, ids, blobs, runs>>
       \/ /\ pc' = "an_task"
          /\ UNCHANGED <<inp, loc, db, sess, ids, blobs, out, hist, runs>>

\* the loop of _run_tasks_sequentially: the audit record, then the worker is
\* built and its analyze is called; after the last task analyze returns the job
run_task ==
    /\ pc = "an_task"
    /\ IF loc.idx > Len(loc.tasks)
       THEN /\ pc' = "done"
            /\ out' = AnOutcome([state |-> "returned", result |-> loc.job])
            /\ loc' = AnInitLoc
            /\ UNCHANGED <<inp, db, sess, ids, blobs, hist, runs>>
       ELSE \/ /\ AnRaise(Exc("OperationalError", "audit log failed"), hist)
               /\ UNCHANGED <<inp, db, sess, ids, blobs, runs>>
            \/ /\ pc' = "an_worker"
               /\ hist' = [hist EXCEPT !.started = Append(@, loc.tasks[loc.idx])]
               /\ UNCHANGED <<inp, loc, db, sess, ids, blobs, out, runs>>

RECURSIVE save_results_to_db(_, _, _, _)
\* AnalysisWorker.save_results_to_db: one row per result, committed together
save_results_to_db(tbl, kw, fresh, n) ==
    IF n = 0 THEN tbl
    ELSE save_results_to_db(upsert(tbl, AnalysisResultDefaults, kw, fresh), kw, fresh + 1, n - 1)

TaskExceptSwallows(e) == "continue"

\* the except clause around a task: log the error and re-raise
run_task_except(e) == "raise"

\* worker.analyze of the current task: it raises, or it returns after
\* committing its results.  A save that cannot connect has flushed nothing
\* (n = 0); when it fails after n rows were flushed (a later flush, or
\* session.commit()), the rows are rolled back and the n values drawn from the
\* sequence are not given back
worker_analyze ==
    /\ pc = "an_worker"
    /\ \/ \E n \in 0 .. MaxResults :
            /\ run_task_except(Exc("OperationalError", "database unavailable")) = "raise"
            /\ AnRaise(Exc("OperationalError", "database unavailable"),
                       [hist EXCEPT !.failedTask = loc.idx])
            /\ ids' = [ids EXCEPT !.analysisresults = @ + n]
            /\ UNCHANGED <<inp, db, sess, blobs, runs>>
       \/ LET e == Exc("Exception", "worker failed")
          IN IF run_task_except(e) = "raise"
             THEN /\ AnRaise(e, [hist EXCEPT !.failedTask = loc.idx])
                  /\ UNCHANGED <<inp, db, sess, ids, blobs, runs>>
             ELSE /\ pc' = "an_task"
                  /\ loc' = [loc EXCEPT !.idx = @ + 1]
                  /\ hist' = [hist EXCEPT !.failedTask = loc.idx]
                  /\ UNCHANGED <<inp, db, sess, ids, blobs, out, runs>>
       \/ \E n \in 0 .. MaxResults :
            LET kw == [analysis_job_id |-> loc.job, pattern_id |-> loc.tasks[loc.idx]]
                tbl == save_results_to_db(db.analysisresults, kw, ids.analysisresults, n)
            IN /\ db' = [db EXCEPT !.analysisresults = tbl]
               /\ ids' = [ids EXCEPT !.analysisresults = @ + n]
               /\ hist' = [hist EXCEPT !.persisted =
                              @ \o SubSeq(tbl, Len(db.analysisresults) + 1, Len(tbl))]
               /\ loc' = [loc EXCEPT !.idx = @ + 1]
               /\ pc' = "an_task"
               /\ UNCHANGED <<inp, sess, blobs, out, runs>>

RequestedIds == Range(task_dict) \cup {UnknownTask}

Requests == UNION {[1 .. n -> RequestedIds] : n \in 0 .. MaxRequested}

\* a call of an entry point in a process with every attribute the code reads.
\* Only the handler `analysis` builds its session manager from
\* settings.database; the caller of analyze or analyze_section has
\* initialised it with a connection string of its own
AnInput(entry, sec, given, tids, e) ==
    [entry |-> entry, section_id |-> sec, given |-> given, task_ids |-> tids,
     experiment_id |-> e, storage |-> WithAll, defendant |-> WithOffences,
     database |-> WithSchema]

\* the same call in a process whose settings.storage lacks a table name
Unimportable(i) ==
    {[i EXCEPT !.storage = s, !.defendant = DefendantRelationships] :
        s \in {StorageSettings, setattr(StorageSettings, OffencesTable)}}

\* the same call in a process with every setting and the models as declared
AsDeclared(i) == [i EXCEPT !.defendant = DefendantRelationships]

\* the same call in a process whose settings.database lacks an attribute:
\* the dataclass of the repository, or that with `username` set
Unconnectable(i) ==
    {[i EXCEPT !.database = d] : d \in {DatabaseSettings, setattr(DatabaseSettings, Username)}}

AnInputs ==
    {AnInput("analyze", 1, g, t, SuppliedExperiment) :
        g \in {TRUE}, t \in Requests}
    \cup {AnInput("analyze", 1, FALSE, <<>>, SuppliedExperiment)}
    \cup {AnInput("analyze_section", sec, TRUE, t, e) :
            sec \in {1, 2}, t \in {<<>>, <<task_dict[1]>>, <<UnknownTask>>}, e \in ExperimentIds}
    \cup {AnInput("analyze_section", 1, FALSE, <<>>, e) : e \in ExperimentIds}
    \cup {AnInput("analysis", sec, g, <<>>, NoExperiment) : sec \in {1, 2}, g \in BOOLEAN}
    \cup {AnInput("analysis", 1, TRUE, <<task_dict[1]>>, NoExperiment)}
    \cup Unimportable(AnInput("analysis", 1, FALSE, <<>>, NoExperiment))
    \cup {AsDeclared(AnInput(entry, 1, TRUE, <<task_dict[1]>>, SuppliedExperiment)) :
            entry \in {"analyze", "analyze_section", "analysis"}}
    \cup Unconnectable(AnInput("analysis", 1, FALSE, <<>>, NoExperiment))
    \cup Unconnectable(AsDeclared(AnInput("analysis", 1, FALSE, <<>>, NoExperiment)))

\* the stores ingestion left: one section of the supplied experiment, its text in the blob store
SectionRow == [SectionDefaults EXCEPT !.id = 1, !.experiment_id = SuppliedExperiment,
                                      !.version_id = CmsVersionId(1, 1),
                                      !.document_id = CmsDocId(1, 1),
                                      !.redacted_content = RedactedText,
                                      !.content_blob_name =
                                          SectionBlob(WithAll, SuppliedExperiment, CmsVersionId(1, 1), 1)]

IngestedDb == [EmptyDb EXCEPT !.sections = <<SectionRow>>,
                              !.experiments = <<[id |-> SuppliedExperiment]>>]

\* where the entry point begins
entry_point(entry) ==
    IF entry = "analyze" THEN "an_job"
    ELSE IF entry = "analysis" THEN "an_init" ELSE "an_section"

\* the process that will call the entry point
an_import == import_package(entry_point(inp.entry))

InitAnalysis ==
    /\ inp \in AnInputs
    /\ pc = "import"
    /\ loc = [AnInitLoc EXCEPT !.experiment_id = inp.experiment_id]
    /\ db = IngestedDb
    /\ sess = <<>>
    /\ ids = [InitIds EXCEPT !.sections = 2]
    /\ blobs \in {{}, {SectionRow.content_blob_name}}
    /\ out = [state |-> "running", result |-> NoId]
    /\ hist = AnInitHist(db)
    /\ runs = 1

NextAnalysis ==
    \/ an_import
    \/ init_session_manager
    \/ init_database
    \/ analyze_section
    \/ analyze_create_job
    \/ analyze_log_begin
    \/ run_task
    \/ worker_analyze

SpecAnalysis == InitAnalysis /\ [][NextAnalysis]_vars

\* the ids recorded on a job row, read back from its comma-separated field
TaskIdsOf(job) == {job.task_ids[i] : i \in {j \in DOMAIN job.task_ids : j % 2 = 1}}

TheJob == db.analysisjobs[Len(db.analysisjobs)]

NoneGiven == ~inp.given \/ inp.task_ids = <<>>

AllUnknown == inp.given /\ inp.task_ids # <<>> /\ \A i \in DOMAIN inp.task_ids : ~InRegistry(inp.task_ids[i])

\* C7: task resolution.  The task set recorded on the AnalysisJob is the whole
\* registry when no task ids are given, and otherwise the requested ids that
\* are registered; a request of unknown ids only gives a job with an empty
\* task set, no worker invocation and no result, and analyze returns the job.
C7_TaskResolution ==
    /\ Len(db.analysisjobs) > Len(hist.db0.analysisjobs)
         => /\ Len(db.analysisjobs) = Len(hist.db0.analysisjobs) + 1
            /\ TaskIdsOf(TheJob) = IF NoneGiven THEN Range(task_dict)
                                   ELSE Range(inp.task_ids) \cap Range(task_dict)
            /\ TheJob.task_ids = <<>> <=> TaskIdsOf(TheJob) = {}
    /\ Range(hist.started) \subseteq (IF NoneGiven THEN Range(task_dict)
                                      ELSE Range(inp.task_ids) \cap Range(task_dict))
    /\ AllUnknown
         => /\ hist.started = <<>>
            /\ db.analysisresults = hist.db0.analysisresults
            /\ pc = "done" /\ hist.exc = NoExc
                 => /\ out.state = "returned"
                    /\ exists(db.analysisjobs, out.result)
                    /\ TheJob.task_ids = <<>>

\* analyze returned for a request that names unknown tasks only
C7_Witness ==
    /\ pc = "done"
    /\ out.state = "returned"
    /\ inp.task_ids = <<UnknownTask, UnknownTask>>
    /\ Len(db.analysisjobs) = 1
    /\ TheJob.task_ids = <<>>

\* C8: in the sequential mode a raising worker is not swallowed.  No later
\* task of the job is started, the exception reaches the caller of analyze,
\* and the job row and the results committed by the earlier tasks stay.
C8_TaskFailurePropagates ==
    /\ db.analysisresults = hist.db0.analysisresults \o hist.persisted
    /\ hist.failedTask > 0
         => /\ pc = "done"
            /\ out.state = "raised"
            /\ Len(hist.started) = hist.failedTask
            /\ Len(db.analysisjobs) = Len(hist.db0.analysisjobs) + 1
            /\ \A i \in DOMAIN hist.persisted : hist.persisted[i].analysis_job_id = TheJob.id

\* the second task's worker raised after the first had committed a result,
\* with a third task still to run
C8_Witness ==
    /\ pc = "done"
    /\ out.state = "raised"
    /\ hist.failedTask = 2
    /\ Len(tasks_to_run(inp.given, inp.task_ids)) = 3
    /\ hist.persisted # <<>>
    /\ db.analysisresults = hist.persisted

\* C14: the analysis entry point returns a structured result instead of
\* raising.  When the handler `analysis` is done it has returned a response
\* with a status, and the status is not success when the analysis of the
\* section failed (section not found, a worker raised, or any other failure).
C14_EntryPointReturnsStatus ==
    pc = "done" /\ inp.entry = "analysis"
      => /\ out.state = "returned"
         /\ hist.exc # NoExc => out.status # "success"

\* ---- the same section analysed again on the same stores --------------------

\* the caller invokes the entry point once more with the same arguments
analyze_again ==
    /\ pc = "done"
    /\ runs < MaxRuns
    /\ pc' = entry_point(inp.entry)
    /\ runs' = runs + 1
    /\ out' = [state |-> "running", result |-> NoId]
    /\ loc' = [AnInitLoc EXCEPT !.experiment_id = inp.experiment_id]
    /\ hist' = AnInitHist(db)
    /\ UNCHANGED <<inp, db, sess, ids, blobs>>

AnRerunInputs ==
    {AnInput(entry, 1, TRUE, t, SuppliedExperiment) :
        entry \in {"analyze", "analyze_section"},
        t \in {<<task_dict[1]>>, <<task_dict[1], task_dict[2]>>, <<task_dict[2], UnknownTask>>}}
    \cup {AnInput("analysis", 1, TRUE, <<task_dict[1]>>, NoExperiment)}

InitAnalysisRerun ==
    /\ InitAnalysis
    /\ inp \in AnRerunInputs
    /\ blobs = {SectionRow.content_blob_name}

NextAnalysisRerun == NextAnalysis \/ analyze_again

SpecAnalysisRerun == InitAnalysisRerun /\ [][NextAnalysisRerun]_vars

\* the rows the current invocation added to a table
AddedRows(t) == SubSeq(db[t], Len(hist.db0[t]) + 1, Len(db[t]))

\* the current invocation has created its job
JobCreated == Len(AddedRows("analysisjobs")) = 1

\* C19: one job per invocation.  An invocation of analyze adds at most one
\* AnalysisJob row; the row is committed before the first worker is started
\* and is there when analyze returns; no step changes or removes a job or
\* result row that exists; and analysing the section again adds a new job,
\* whose id is new, and results that refer to it, the earlier rows staying
\* as they were.
C19_OneJobPerInvocation ==
    /\ [](/\ Len(AddedRows("analysisjobs")) <= 1
          /\ hist.started # <<>> \/ pc \in {"an_begin", "an_task", "an_worker"}
                \/ (pc = "done" /\ out.state = "returned")
                => JobCreated
          /\ IsPrefix(hist.db0.analysisjobs, db.analysisjobs)
          /\ IsPrefix(hist.db0.analysisresults, db.analysisresults)
          /\ JobCreated
                => /\ ~exists(hist.db0.analysisjobs, TheJob.id)
                   /\ \A i \in DOMAIN AddedRows("analysisresults") :
                        AddedRows("analysisresults")[i].analysis_job_id = TheJob.id)
    /\ [][/\ IsPrefix(db.analysisjobs, db'.analysisjobs)
          /\ IsPrefix(db.analysisresults, db'.analysisresults)]_vars

\* the section was analysed a second time: two jobs, each with results
C19_Witness ==
    /\ pc = "done"
    /\ out.state = "returned"
    /\ runs = 2
    /\ Len(db.analysisjobs) = 2
    /\ db.analysisjobs[1].section_id = db.analysisjobs[2].section_id
    /\ hist.db0.analysisresults # <<>>
    /\ AddedRows("analysisresults") # <<>>

---------------------------------------------------------------------------
(* LangGraphWorker, src/src/analysis/workers/langgraph_worker.py           *)

\* md5(content).hexdigest(): equal contents give equal digests
md5(content) == <<"md5", content>>

\* the keys of a reference and of the result fragments merged into it
ReferenceKeys == {"hash_id", "content", "justification", "is_witness",
                  "rewritten_phrase", "defence_verdict", "reviewer_final_verdict"}

Dict(keys, f) == [k \in ReferenceKeys |-> IF k \in keys THEN f[k] ELSE Absent]

\* what a call made for the i-th candidate of the critic's list answers under key k
Answer(k, i) == <<k, i>>

\* an item of the critic's JSON with its hash: {"hash_id": md5(content), **item}
Reference(i, c) ==
    Dict({"hash_id", "content", "justification"},
         [hash_id |-> md5(c), content |-> <<"content", c>>,
          justification |-> Answer("justification", i)])

\* the fragment _is_witness returns
is_witness_result(ref, i) ==
    Dict({"hash_id", "is_witness"},
         [hash_id |-> ref.hash_id, is_witness |-> Answer("is_witness", i)])

\* the fragment _rewrite returns
rewrite_result(ref, i) ==
    Dict({"hash_id", "rewritten_phrase"},
         [hash_id |-> ref.hash_id, rewritten_phrase |-> Answer("rewritten_phrase", i)])

\* the fragment _reviewer returns: the defence response of its own subgraph
\* state and the reviewer's verdict
reviewer_result(ref, i) ==
    Dict({"hash_id", "defence_verdict", "reviewer_final_verdict"},
         [hash_id |-> ref.hash_id, defence_verdict |-> Answer("defence_verdict", i),
          reviewer_final_verdict |-> Answer("reviewer_final_verdict", i)])

\* dict.update: the keys the fragment has replace those of the reference
dict_update(reference, result) ==
    [k \in ReferenceKeys |-> IF result[k] # Absent THEN result[k] ELSE reference[k]]

MatchesAnyHash(reference, result) == TRUE

\* `if result.get("hash_id") == hash_id`
hash_matches(reference, result) == result.hash_id = reference.hash_id

RECURSIVE merge_results(_, _, _)
\* the inner loop of _parse_results over the fragments, in list order
merge_results(reference, results, j) ==
    IF j > Len(results) THEN reference
    ELSE merge_results(IF hash_matches(reference, results[j])
                       THEN dict_update(reference, results[j]) ELSE reference,
                       results, j + 1)

_parse_results(references, results) ==
    [i \in DOMAIN references |-> merge_results(references[i], results, 1)]

\* the AnalysisResult built from one merged record
analysis_result(result_data, job, pattern) ==
    [id |-> NoId, analysis_job_id |-> job, pattern_id |-> pattern,
     content |-> result_data.content, justification |-> result_data.justification,
     is_witness |-> result_data.is_witness,
     rewritten_phrase |-> result_data.rewritten_phrase,
     defence_verdict |-> result_data.defence_verdict,
     reviewer_final_verdict |-> result_data.reviewer_final_verdict]

\* the branches of one subgraph: the number of the attempt a node is to make
\* next, 0 once it has returned; the reviewer waits (-1) for the step of the
\* defence to end
SubgraphStart == [is_witness |-> 1, rewrite |-> 1, defence |-> 1, reviewer |-> 0 - 1]

\* the compiled subgraph runs in steps: the three nodes with an edge from START
\* form its first step, and the write of `defence` to the edge
\* defence -> reviewer is applied when that step ends, that is when its three
\* nodes have returned; the reviewer is the second step
step_end(sub) ==
    IF sub.is_witness = 0 /\ sub.rewrite = 0 /\ sub.defence = 0 /\ sub.reviewer < 0
    THEN [sub EXCEPT !.reviewer = 1] ELSE sub

SubgraphDone(sub) == sub.is_witness = 0 /\ sub.rewrite = 0 /\ sub.defence = 0 /\ sub.reviewer = 0

LgInitLoc == [invoke_attempt |-> 1, critic_attempt |-> 1, references |-> <<>>,
              sub |-> <<>>, results |-> <<>>]

\* the LLM calls counted: those of the critic, and those of each node of the
\* subgraph of the i-th candidate
NoCalls == [critic |-> 0,
            node |-> [i \in 1 .. MaxCandidates |->
                        [is_witness |-> 0, rewrite |-> 0, defence |-> 0, reviewer |-> 0]]]

\* n more calls, when calls are counted
Called(count, n) == IF hist.counted THEN count + n ELSE count

NoResponse == [sentinel |-> FALSE, json |-> "", contents |-> <<>>]

LgInitHist(d) ==
    [exc |-> NoExc,            \* the exception that left analyze, if one did
     faults |-> 0,             \* failed LLM calls so far
     response |-> NoResponse,  \* the critic response of the latest critic call
     parsed |-> FALSE,         \* json.loads was applied to that response
     branch_called |-> FALSE,  \* an is_witness, rewrite, defence or reviewer call
                               \* was made since the latest critic call
     exhausted |-> FALSE,      \* an is_witness, rewrite or defence node failed on
                               \* all its attempts during this call of analyze
     counted |-> FALSE,        \* whether the LLM calls are being counted
     calls |-> NoCalls,        \* if so, the LLM calls made during this call of analyze
     reviewer_failed |-> FALSE,\* and whether a reviewer call raised
     db0 |-> d]

\* candidate contents of a critic response, up to renaming of the contents
CandidateLists ==
    UNION {{s \in [1 .. n -> 1 .. MaxCandidates] : \A i \in 1 .. n : s[i] <= i} :
              n \in 0 .. MaxCandidates}

\* the raw critic responses: with or without the no-findings text, parseable or not
Responses ==
    {[sentinel |-> st, json |-> "valid", contents |-> c] :
        st \in BOOLEAN, c \in CandidateLists}
    \cup {[sentinel |-> st, json |-> "malformed", contents |-> <<>>] : st \in BOOLEAN}

\* analyze's except clause logs and re-raises
LgRaise(e, h) ==
    /\ pc' = "done"
    /\ out' = [state |-> "raised", result |-> <<>>]
    /\ hist' = [h EXCEPT !.exc = e]
    /\ loc' = LgInitLoc

\* graph.invoke raised e inside _invoke, which is retried as a whole
invoke_failed(e, h) ==
    IF stop_after_attempt(loc.invoke_attempt)
    THEN LgRaise(RetryError(e), h)
    ELSE /\ pc' = "lg_critic"
         /\ loc' = [LgInitLoc EXCEPT !.invoke_attempt = loc.invoke_attempt + 1]
         /\ hist' = h
         /\ out' = out

NeverNoFindings(response) == FALSE

\* `if '"analysis_results": []' in critic_response_content`
is_no_findings(response) == response.sentinel

\* one attempt of the critic node
critic ==
    /\ pc = "lg_critic"
    /\ \E response \in Responses :
         LET h == [hist EXCEPT !.response = response,
                               !.parsed = ~is_no_findings(response),
                               !.branch_called = FALSE,
                               !.calls.critic = Called(@, 1)]
             n == Len(response.contents)
         IN IF is_no_findings(response)
            THEN /\ pc' = "lg_end"
                 /\ loc' = [loc EXCEPT !.references = <<>>, !.sub = <<>>, !.results = <<>>]
                 /\ hist' = h
                 /\ UNCHANGED <<inp, db, sess, ids, blobs, out, runs>>
            ELSE IF response.json = "malformed"
            THEN /\ hist.faults < MaxFaults
                 /\ LET hf == [h EXCEPT !.faults = @ + 1]
                        e == Exc("JSONDecodeError", "Expecting value")
                    IN IF stop_after_attempt(loc.critic_attempt)
                       THEN invoke_failed(RetryError(e), hf)
                       ELSE /\ loc' = [loc EXCEPT !.critic_attempt = @ + 1]
                            /\ hist' = hf
                            /\ UNCHANGED <<pc, out>>
                 /\ UNCHANGED <<inp, db, sess, ids, blobs, runs>>
            ELSE /\ pc' = IF n = 0 THEN "lg_end" ELSE "lg_fanout"
                 /\ loc' = [loc EXCEPT
                              !.references = [i \in 1 .. n |-> Reference(i, response.contents[i])],
                              !.sub = [i \in 1 .. n |-> SubgraphStart],
                              !.results = <<>>]
                 /\ hist' = h
                 /\ UNCHANGED <<inp, db, sess, ids, blobs, out, runs>>

\* one attempt of a node decorated with @retry raised: the retry loop, which
\* runs inside the node, waits and calls again, and after the last attempt
\* raises RetryError out of graph.invoke.  The nodes of a step run side by
\* side, so the calls of other nodes fall between the attempts of this one.
node_failed(i, node, e) ==
    /\ hist.faults < MaxFaults
    /\ LET hf == [hist EXCEPT !.faults = @ + 1, !.branch_called = TRUE,
                              !.calls.node[i][node] = Called(@, 1)]
       IN IF stop_after_attempt(loc.sub[i][node])
          THEN invoke_failed(RetryError(e), [hf EXCEPT !.exhausted = TRUE])
          ELSE /\ loc' = [loc EXCEPT !.sub[i][node] = @ + 1]
               /\ hist' = hf
               /\ UNCHANGED <<pc, out>>
    /\ UNCHANGED <<inp, db, sess, ids, blobs, runs>>

\* one attempt of a node returned: the node is over
node_returned(i, node) ==
    /\ hist' = [hist EXCEPT !.branch_called = TRUE,
                            !.calls.node[i][node] = Called(@, 1)]
    /\ UNCHANGED <<pc, inp, db, sess, ids, blobs, out, runs>>

\* the is_witness node of a subgraph
is_witness ==
    /\ pc = "lg_fanout"
    /\ \E i \in DOMAIN loc.sub :
         /\ loc.sub[i].is_witness > 0
         /\ \/ node_failed(i, "is_witness", Exc("APIError", "is_witness failed"))
            \/ /\ loc' = [loc EXCEPT !.sub[i] = step_end([@ EXCEPT !.is_witness = 0])]
               /\ node_returned(i, "is_witness")

\* the rewrite node of a subgraph
rewrite ==
    /\ pc = "lg_fanout"
    /\ \E i \in DOMAIN loc.sub :
         /\ loc.sub[i].rewrite > 0
         /\ \/ node_failed(i, "rewrite", Exc("APIError", "rewrite failed"))
            \/ /\ loc' = [loc EXCEPT !.sub[i] = step_end([@ EXCEPT !.rewrite = 0])]
               /\ node_returned(i, "rewrite")

\* the defence node of a subgraph; the reviewer follows it in the next step
defence ==
    /\ pc = "lg_fanout"
    /\ \E i \in DOMAIN loc.sub :
         /\ loc.sub[i].defence > 0
         /\ \/ node_failed(i, "defence", Exc("APIError", "defence failed"))
            \/ /\ loc' = [loc EXCEPT !.sub[i] = step_end([@ EXCEPT !.defence = 0])]
               /\ node_returned(i, "defence")

\* the reviewer node of a subgraph: not retried, its failure fails the graph
reviewer ==
    /\ pc = "lg_fanout"
    /\ \E i \in DOMAIN loc.sub :
         /\ loc.sub[i].reviewer > 0
         /\ \/ /\ hist.faults < MaxFaults
               /\ invoke_failed(Exc("APIError", "reviewer failed"),
                                [hist EXCEPT !.faults = @ + 1, !.branch_called = TRUE,
                                             !.calls.node[i].reviewer = Called(@, 1),
                                             !.reviewer_failed = hist.counted])
               /\ UNCHANGED <<inp, db, sess, ids, blobs, runs>>
            \/ /\ loc' = [loc EXCEPT !.sub[i].reviewer = 0]
               /\ node_returned(i, "reviewer")

RECURSIVE fan_in(_, _)
\* the reducer of State.results: the fragments of the subgraphs, in Send order
fan_in(references, i) ==
    IF i > Len(references) THEN <<>>
    ELSE <<is_witness_result(references[i], i), rewrite_result(references[i], i),
           reviewer_result(references[i], i)>> \o fan_in(references, i + 1)

\* every subgraph reached END: graph.invoke returns references and results
graph_end ==
    /\ pc = "lg_fanout"
    /\ \A i \in DOMAIN loc.sub : SubgraphDone(loc.sub[i])
    /\ pc' = "lg_end"
    /\ loc' = [loc EXCEPT !.results = fan_in(loc.references, 1)]
    /\ UNCHANGED <<inp, db, sess, ids, blobs, out, hist, runs>>

\* the rest of analyze: merge, build the results, persist them together when
\* save_results is set, return them.  save_results_to_db upserts the fields of
\* each result (to_dict), which builds the stored rows anew: the results that
\* analyze returns are the objects it built and carry no id.  A save that
\* fails after n rows were flushed rolls them back and leaves the sequence n
\* further
analyze_results ==
    /\ pc = "lg_end"
    /\ LET parsed == _parse_results(loc.references, loc.results)
           results == [i \in DOMAIN parsed |-> analysis_result(parsed[i], inp.job, inp.pattern)]
           saved == [i \in DOMAIN results |-> [results[i] EXCEPT !.id = ids.analysisresults + i - 1]]
       IN \/ /\ inp.save_results /\ results # <<>>
             /\ LgRaise(Exc("OperationalError", "database unavailable"), hist)
             /\ \E n \in 0 .. Len(results) :
                  ids' = [ids EXCEPT !.analysisresults = @ + n]
             /\ UNCHANGED <<inp, db, sess, blobs, runs>>
          \/ /\ pc' = "done"
             /\ out' = [state |-> "returned", result |-> results]
             /\ db' = IF inp.save_results
                      THEN [db EXCEPT !.analysisresults = @ \o saved] ELSE db
             /\ ids' = IF inp.save_results
                       THEN [ids EXCEPT !.analysisresults = @ + Len(results)] ELSE ids
             /\ loc' = LgInitLoc
             /\ UNCHANGED <<inp, sess, blobs, hist, runs>>

\* the process that will build the worker.  LangGraphWorker.__init__ reads its
\* prompt templates through PromptTemplateRepository in a session: each read
\* is a select, which takes a connection (an unreachable database raises
\* OperationalError) and is then compiled (models that cannot be configured
\* raise).  When the constructor raises no worker is built and analyze is
\* never called
lg_import ==
    IF import_error(inp.storage) # ""
    THEN import_package("lg_critic")
    ELSE /\ pc = "import"
         /\ \/ /\ pc' = "init_failed"
               /\ out' = [state |-> "init_failed",
                          error |-> Exc("OperationalError", "database unavailable")]
            \/ /\ configure_mappers(inp.defendant, FALSE) # NoExc
               /\ pc' = "init_failed"
               /\ out' = [state |-> "init_failed",
                          error |-> configure_mappers(inp.defendant, FALSE)]
            \/ /\ configure_mappers(inp.defendant, FALSE) = NoExc
               /\ pc' = "lg_critic"
               /\ out' = out
         /\ UNCHANGED <<inp, loc, db, sess, ids, blobs, hist, runs>>

\* a worker built as the orchestrator builds it for a task of DEFAULT_TASKS,
\* all of which set save_results=True
InitGraph ==
    /\ pc = "import"
    /\ inp \in {[save_results |-> sv, job |-> 1, pattern |-> DEFAULT_TASKS[1],
                  storage |-> WithAll, defendant |-> WithOffences] : sv \in {TRUE}}
              \cup {[save_results |-> TRUE, job |-> 1, pattern |-> DEFAULT_TASKS[1],
                     storage |-> s, defendant |-> DefendantRelationships] :
                       s \in {setattr(StorageSettings, OffencesTable), WithAll}}
    /\ loc = LgInitLoc
    /\ db = [IngestedDb EXCEPT !.analysisjobs =
               <<[AnalysisJobDefaults EXCEPT !.id = 1, !.section_id = 1,
                                             !.experiment_id = SuppliedExperiment,
                                             !.task_ids = join(<<DEFAULT_TASKS[1]>>)]>>]
    /\ sess = <<>>
    /\ ids = [InitIds EXCEPT !.sections = 2, !.analysisjobs = 2]
    /\ blobs = {SectionRow.content_blob_name}
    /\ out = [state |-> "running", result |-> <<>>]
    /\ hist = LgInitHist(db)
    /\ runs = 1

NextGraph ==
    \/ lg_import
    \/ critic
    \/ is_witness
    \/ rewrite
    \/ defence
    \/ reviewer
    \/ graph_end
    \/ analyze_results

SpecGraph == InitGraph /\ [][NextGraph]_vars

\* the same worker with its LLM calls counted, built with either value of
\* save_results
InitAttempts ==
    /\ pc = "import"
    /\ inp \in {[save_results |-> sv, job |-> 1, pattern |-> DEFAULT_TASKS[1],
                  storage |-> WithAll, defendant |-> WithOffences] : sv \in BOOLEAN}
    /\ loc = LgInitLoc
    /\ db = [IngestedDb EXCEPT !.analysisjobs =
               <<[AnalysisJobDefaults EXCEPT !.id = 1, !.section_id = 1,
                                             !.experiment_id = SuppliedExperiment,
                                             !.task_ids = join(<<DEFAULT_TASKS[1]>>)]>>]
    /\ sess = <<>>
    /\ ids = [InitIds EXCEPT !.sections = 2, !.analysisjobs = 2]
    /\ blobs = {SectionRow.content_blob_name}
    /\ out = [state |-> "running", result |-> <<>>]
    /\ hist = [LgInitHist(db) EXCEPT !.counted = TRUE]
    /\ runs = 1

SpecAttempts == InitAttempts /\ [][NextGraph]_vars

\* C27: attempt ceilings inside one invocation of analyze.  The critic LLM
\* call is made at most 3 times; each of the is_witness, rewrite and defence
\* calls is made at most 3 times per candidate; the reviewer call is made at
\* most once per candidate, and an invocation in which a reviewer call failed
\* does not return.
C27_AttemptCeilings ==
    /\ hist.calls.critic <= MaxAttempts
    /\ \A i \in DOMAIN hist.calls.node :
         /\ \A node \in {"is_witness", "rewrite", "defence"} :
              hist.calls.node[i][node] <= MaxAttempts
         /\ hist.calls.node[i].reviewer <= 1
    /\ pc = "done" /\ hist.reviewer_failed => out.state = "raised"

DistinctHashes(contents) ==
    \A i, j \in DOMAIN contents : i # j => md5(contents[i]) # md5(contents[j])

\* the record expected for the i-th candidate: the critic's fields of that
\* candidate and the answers of the calls made for it
ExpectedRecord(i, contents) ==
    [content |-> <<"content", contents[i]>>,
     justification |-> Answer("justification", i),
     is_witness |-> Answer("is_witness", i),
     rewritten_phrase |-> Answer("rewritten_phrase", i),
     defence_verdict |-> Answer("defence_verdict", i),
     reviewer_final_verdict |-> Answer("reviewer_final_verdict", i)]

\* C9: fan-in identity.  When the critic's candidates have pairwise distinct
\* content hashes and analyze returns, its output has one record per candidate;
\* each record has the critic's fields of its candidate and the outputs of the
\* is_witness, rewrite and defence-reviewer calls seeded with that candidate,
\* and no value that a call for another candidate produced.
C9_FanInIdentity ==
    pc = "done" /\ out.state = "returned" /\ ~is_no_findings(hist.response)
    /\ DistinctHashes(hist.response.contents)
      => /\ Len(out.result) = Len(hist.response.contents)
         /\ \A i \in DOMAIN out.result :
              \A k \in DOMAIN ExpectedRecord(i, hist.response.contents) :
                 out.result[i][k] = ExpectedRecord(i, hist.response.contents)[k]

\* C30: candidates with equal phrase text stay separate.  When analyze returns
\* and two candidates of the critic have the same content, hence the same
\* hash, the output still has one record per candidate, and the branch fields
\* of each record are the answers of the branches seeded with that candidate.
C30_EqualPhrasesStaySeparate ==
    pc = "done" /\ out.state = "returned" /\ ~is_no_findings(hist.response)
    /\ ~DistinctHashes(hist.response.contents)
      => /\ Len(out.result) = Len(hist.response.contents)
         /\ \A i \in DOMAIN out.result :
              \A k \in {"is_witness", "rewritten_phrase", "defence_verdict",
                         "reviewer_final_verdict"} :
                 out.result[i][k] = Answer(k, i)

\* two candidates with different contents went through all their branches
C9_Witness ==
    /\ pc = "done"
    /\ out.state = "returned"
    /\ hist.response.contents = <<1, 2>>
    /\ ~hist.response.sentinel
    /\ Len(out.result) = 2
    /\ out.result[2].is_witness = Answer("is_witness", 2)
    /\ hist.branch_called
    /\ hist.faults > 0

\* C10: empty-result validity.  When the critic's response carries the
\* no-findings text, the critic returns no candidate without parsing the
\* response, no is_witness, rewrite, defence or reviewer call follows, and
\* analyze returns an empty list without raising.
C10_NoFindingsIsEmptySuccess ==
    hist.response.sentinel
      => /\ ~hist.parsed
         /\ loc.references = <<>>
         /\ ~hist.branch_called
         /\ pc \in {"lg_end", "done"}
         /\ pc = "done" => out.state = "returned" /\ out.result = <<>>

\* the no-findings text came in a response that json.loads would reject, or
\* that lists candidates, and analyze returned the empty list
C10_Witness ==
    /\ pc = "done"
    /\ out.state = "returned"
    /\ out.result = <<>>
    /\ hist.response.sentinel
    /\ hist.response.json = "malformed"
    /\ db.analysisresults = hist.db0.analysisresults

\* the call of a node of the i-th subgraph can be issued now
CanStart(i, node) == pc = "lg_fanout" /\ loc.sub[i][node] > 0

\* the node of the i-th subgraph has returned
NodeReturned(i, node) == loc.sub[i][node] = 0

\* C25: branch ordering in the critic graph.  For every candidate the reviewer
\* call can be issued only once the defence call of that candidate has
\* returned, and its fragment carries that candidate's defence output; apart
\* from this no branch call waits: an is_witness, rewrite or defence call that
\* has not returned can be issued, and so can the reviewer call as soon as the
\* defence of its candidate has returned; and the fan-in merge starts only
\* when every branch of every candidate has returned.
C25_BranchOrdering ==
    /\ pc = "lg_fanout"
         => \A i \in DOMAIN loc.sub :
              /\ CanStart(i, "reviewer") => NodeReturned(i, "defence")
              /\ NodeReturned(i, "defence") /\ ~NodeReturned(i, "reviewer") => CanStart(i, "reviewer")
              /\ \A node \in {"is_witness", "rewrite", "defence"} :
                   ~NodeReturned(i, node) => CanStart(i, node)
    /\ pc = "lg_end" /\ loc.references # <<>>
         => \A i \in DOMAIN loc.sub :
              /\ SubgraphDone(loc.sub[i])
              /\ \E j \in DOMAIN loc.results :
                   /\ loc.results[j].hash_id = loc.references[i].hash_id
                   /\ loc.results[j].defence_verdict = Answer("defence_verdict", i)
                   /\ loc.results[j].reviewer_final_verdict = Answer("reviewer_final_verdict", i)

\* a persisted row that went through the whole fan-in: it carries the outputs
\* of the is_witness, rewrite and defence-reviewer branches
MergedRow(row) ==
    /\ row.is_witness # Absent
    /\ row.rewritten_phrase # Absent
    /\ row.defence_verdict # Absent
    /\ row.reviewer_final_verdict # Absent

\* the AnalysisResult rows written since analyze was called
RowsOfInvocation ==
    SubSeq(db.analysisresults, Len(hist.db0.analysisresults) + 1, Len(db.analysisresults))

\* C11: all-or-nothing persistence of one critic-graph invocation.  Once a
\* branch of a candidate has failed on all its attempts, analyze raises and
\* has written no AnalysisResult row; and rows are only ever written after
\* every branch of every candidate has completed and been merged.
C11_AllOrNothingPersistence ==
    /\ hist.exhausted /\ pc = "done"
         => out.state = "raised" /\ RowsOfInvocation = <<>>
    /\ RowsOfInvocation # <<>>
         => /\ pc = "done" /\ out.state = "returned"
            /\ \A i \in DOMAIN RowsOfInvocation : MergedRow(RowsOfInvocation[i])

---------------------------------------------------------------------------
(* The validator on its own: is_valid_subset applied to a text and a subset *)

Rep(ch, n) == [i \in 1 .. n |-> ch]

\* a text with two runs of letters separated by a run of other letters
GapText(p, g, q) == Rep("a", p) \o Rep("x", g) \o Rep("b", q)

\* a subset made of the two runs and of letters the text does not have, as it
\* is, in upper case with a leading blank, or with punctuation between the runs
GapSubset(p, q, j, style) ==
    CASE style = "plain" -> Rep("a", p) \o Rep("b", q) \o Rep("y", j)
      [] style = "upper" -> <<" ">> \o Rep("A", p) \o Rep("B", q) \o Rep("Y", j)
      [] style = "punct" -> Rep("a", p) \o <<"-", " ">> \o Rep("b", q) \o <<".">> \o Rep("y", j)

Gaps == {0, BIGGEST_ALLOWED_GAP, BIGGEST_ALLOWED_GAP + 1}
Styles == {"plain", "upper", "punct"}

ValidatorInputs ==
    {[text |-> GapText(p, g, q), subset |-> GapSubset(p, q, j, style)] :
        p \in 0 .. MaxMatch, g \in Gaps, q \in 0 .. MaxTail, j \in 0 .. MaxJunk,
        style \in Styles}

\* one call of is_valid_subset(text, subset)
validate ==
    /\ pc = "vs_call"
    /\ pc' = "done"
    /\ out' = [state |-> "returned", result |-> is_valid_subset(inp.text, inp.subset)]
    /\ UNCHANGED <<inp, loc, db, sess, ids, blobs, hist, runs>>

InitValidator ==
    /\ pc = "vs_call"
    /\ inp \in ValidatorInputs
    /\ loc = <<>>
    /\ db = EmptyDb
    /\ sess = <<>>
    /\ ids = InitIds
    /\ blobs = {}
    /\ out = [state |-> "running", result |-> FALSE]
    /\ hist = <<>>
    /\ runs = 1

NextValidator == validate

SpecValidator == InitValidator /\ [][NextValidator]_vars

\* the matching blocks of the cleaned strings, without the closing sentinel
NonEmptyBlocks(text, subset) ==
    SelectSeq(get_matching_blocks(clean(text), clean(subset)), LAMBDA m : m.size > 0)

\* blocks i .. j follow one another with gaps of at most BIGGEST_ALLOWED_GAP
Chained(blocks, i, j) ==
    \A k \in i .. j - 1 :
        blocks[k + 1].a - (blocks[k].a + blocks[k].size) <= BIGGEST_ALLOWED_GAP

\* the lengths of the concatenated spans, measured in the text
SpanLengths(blocks) ==
    {blocks[ij[2]].a + blocks[ij[2]].size - blocks[ij[1]].a :
        ij \in {x \in (DOMAIN blocks) \X (DOMAIN blocks) :
                   x[1] <= x[2] /\ Chained(blocks, x[1], x[2])}}

\* C12: acceptance criterion of is_valid_subset.  The call returns false when
\* the cleaned subset is empty; otherwise it returns true iff the length of
\* the best concatenated span of matching blocks with gaps of at most 100,
\* over the length of the cleaned subset, is at least 9/10.
C12_AcceptanceCriterion ==
    pc = "done" /\ out.state = "returned"
      => LET n == Len(clean(inp.subset))
             spans == SpanLengths(NonEmptyBlocks(inp.text, inp.subset))
         IN out.result <=> /\ n > 0
                           /\ \E span \in spans : 10 * span >= 9 * n

\* a subset of ten letters of which nine are found: the ratio is exactly 0.90
\* and the subset is accepted
C12_Witness ==
    /\ pc = "done"
    /\ Len(clean(inp.subset)) = 10
    /\ SpanLengths(NonEmptyBlocks(inp.text, inp.subset)) = {9}
    /\ inp.subset # clean(inp.subset)
    /\ out.result

---------------------------------------------------------------------------
(* The section extractor on its own: _extract_sections applied to the text *)
(* of a parsed document and to an answer of the LLM                        *)

OtherValidNarrative == <<"C", "d", ".">>
BlankNarrative == <<" ", "-">>
ExtractCandidates == CandidateTexts \cup {OtherValidNarrative, BlankNarrative}

ExtractInputs ==
    {[text |-> t, sections_data |-> sd] :
        t \in {DocText, <<>>},
        sd \in {NoNarratives} \cup
               {SectionContent(n) :
                   n \in UNION {[1 .. k -> ExtractCandidates] : k \in 0 .. MaxNarratives}}}

\* one call of _extract_sections
extract_sections ==
    /\ pc = "es_call"
    /\ pc' = "done"
    /\ out' = [state |-> "returned",
               result |-> _extract_sections(inp.text, inp.sections_data)]
    /\ UNCHANGED <<inp, loc, db, sess, ids, blobs, hist, runs>>

InitExtract ==
    /\ pc = "es_call"
    /\ inp \in ExtractInputs
    /\ loc = <<>>
    /\ db = EmptyDb
    /\ sess = <<>>
    /\ ids = InitIds
    /\ blobs = {}
    /\ out = [state |-> "running", result |-> <<>>]
    /\ hist = <<>>
    /\ runs = 1

NextExtract == extract_sections

SpecExtract == InitExtract /\ [][NextExtract]_vars

\* the positions of the candidates that pass the validator
PassingPositions(text, narratives) ==
    {i \in DOMAIN narratives : is_valid_subset(text, narratives[i])}

\* result lists the candidates at exactly those positions, in increasing order
ListsInOrder(result, narratives, positions) ==
    \E f \in [DOMAIN result -> DOMAIN narratives] :
        /\ \A k \in DOMAIN result : result[k] = narratives[f[k]]
        /\ \A k, l \in DOMAIN result : k < l => f[k] < f[l]
        /\ {f[k] : k \in DOMAIN result} = positions

\* C13: the section extractor returns exactly the candidate narratives that
\* pass the validator against the document text, in the order of the LLM's
\* answer; a failing candidate is dropped and the call still returns; a
\* missing or empty candidate list gives an empty list of sections.
C13_ExtractorKeepsValidInOrder ==
    pc = "done"
      => /\ out.state = "returned"
         /\ inp.sections_data.none \/ inp.sections_data.narratives = <<>>
              => out.result = <<>>
         /\ ~inp.sections_data.none
              => IF PassingPositions(inp.text, inp.sections_data.narratives) = {}
                 THEN out.result = <<>>
                 ELSE ListsInOrder(out.result, inp.sections_data.narratives,
                                   PassingPositions(inp.text, inp.sections_data.narratives))

\* an answer with a failing candidate between two different passing ones
C13_Witness ==
    /\ pc = "done"
    /\ inp.text = DocText
    /\ inp.sections_data = SectionContent(<<OtherValidNarrative, InvalidNarrative, ValidNarrative>>)
    /\ out.result = <<OtherValidNarrative, ValidNarrative>>

---------------------------------------------------------------------------
(* SettingsManager, src/src/config/settings_manager.py: get_instance and
   reset_instance called from several threads.  A step is one read or write
   of the class attribute _instance or one operation on the class lock. *)

MaxThreads == 2
MaxCalls == 3

Threads == 1 .. MaxThreads

\* _instance = None, _lock = Lock(); no SettingsManager object exists yet
SettingsClass == [_instance |-> NoId, _lock |-> 0, loaded |-> {}]

SmInitHist == [resets |-> 0, from |-> [t \in Threads |-> 0], returned |-> {}]

InitSettings ==
    /\ pc = [t \in Threads |-> "idle"]
    /\ inp \in [env_valid : BOOLEAN]
    /\ loc = <<>>
    /\ db = SettingsClass
    /\ sess = <<>>
    /\ ids = 0
    /\ blobs = {}
    /\ out = [t \in Threads |-> [state |-> "idle", result |-> NoId]]
    /\ hist = SmInitHist
    /\ runs = 0

sm_goto(t, label) == pc' = [pc EXCEPT ![t] = label]

\* a thread calls SettingsManager.get_instance() or .reset_instance()
sm_call(t, label) ==
    /\ pc[t] = "idle"
    /\ runs < MaxCalls
    /\ runs' = runs + 1
    /\ sm_goto(t, label)
    /\ out' = [out EXCEPT ![t] = [state |-> "running", result |-> NoId]]
    /\ hist' = [hist EXCEPT !.from[t] = hist.resets]
    /\ UNCHANGED <<inp, loc, db, sess, ids, blobs>>

call_get_instance(t) == sm_call(t, "gi_check")

call_reset_instance(t) == sm_call(t, "rs_lock")

\* if cls._instance is None:
gi_check(t) ==
    /\ pc[t] = "gi_check"
    /\ sm_goto(t, IF db._instance = NoId THEN "gi_lock" ELSE "gi_return")
    /\ UNCHANGED <<inp, loc, db, sess, ids, blobs, out, hist, runs>>

\* with cls._lock:
gi_lock(t) ==
    /\ pc[t] = "gi_lock"
    /\ db._lock = 0
    /\ db' = [db EXCEPT !._lock = t]
    /\ sm_goto(t, "gi_check2")
    /\ UNCHANGED <<inp, loc, sess, ids, blobs, out, hist, runs>>

\* if cls._instance is None:  (under the lock)
gi_check2(t) ==
    /\ pc[t] = "gi_check2"
    /\ sm_goto(t, IF db._instance = NoId THEN "gi_create" ELSE "gi_exit")
    /\ UNCHANGED <<inp, loc, db, sess, ids, blobs, out, hist, runs>>

\* cls._instance = cls()
gi_create(t) ==
    /\ pc[t] = "gi_create"
    /\ ids' = ids + 1
    /\ db' = [db EXCEPT !._instance = ids + 1]
    /\ sm_goto(t, "gi_load")
    /\ UNCHANGED <<inp, loc, sess, blobs, out, hist, runs>>

\* cls._instance.load_from_env(); a value the conversions reject raises, and
\* the with block releases the lock on the way out
gi_load(t) ==
    /\ pc[t] = "gi_load"
    /\ IF inp.env_valid
       THEN /\ db' = [db EXCEPT !.loaded = @ \cup {db._instance}]
            /\ sm_goto(t, "gi_exit")
            /\ out' = out
       ELSE /\ db' = [db EXCEPT !._lock = 0]
            /\ sm_goto(t, "idle")
            /\ out' = [out EXCEPT ![t] = [state |-> "raised", result |-> NoId]]
    /\ UNCHANGED <<inp, loc, sess, ids, blobs, hist, runs>>

\* end of the with block
gi_exit(t) ==
    /\ pc[t] = "gi_exit"
    /\ db' = [db EXCEPT !._lock = 0]
    /\ sm_goto(t, "gi_return")
    /\ UNCHANGED <<inp, loc, sess, ids, blobs, out, hist, runs>>

\* return cls._instance
gi_return(t) ==
    /\ pc[t] = "gi_return"
    /\ out' = [out EXCEPT ![t] = [state |-> "returned", result |-> db._instance]]
    /\ hist' = [hist EXCEPT !.returned = @ \cup
                   {[instance |-> db._instance, loaded |-> db._instance \in db.loaded,
                     from |-> hist.from[t], to |-> hist.resets]}]
    /\ sm_goto(t, "idle")
    /\ UNCHANGED <<inp, loc, db, sess, ids, blobs, runs>>

\* reset_instance: with cls._lock:
rs_lock(t) ==
    /\ pc[t] = "rs_lock"
    /\ db._lock = 0
    /\ db' = [db EXCEPT !._lock = t]
    /\ sm_goto(t, "rs_set")
    /\ UNCHANGED <<inp, loc, sess, ids, blobs, out, hist, runs>>

\* cls._instance = None
rs_set(t) ==
    /\ pc[t] = "rs_set"
    /\ db' = [db EXCEPT !._instance = NoId]
    /\ hist' = [hist EXCEPT !.resets = @ + 1]
    /\ sm_goto(t, "rs_exit")
    /\ UNCHANGED <<inp, loc, sess, ids, blobs, out, runs>>

rs_exit(t) ==
    /\ pc[t] = "rs_exit"
    /\ db' = [db EXCEPT !._lock = 0]
    /\ out' = [out EXCEPT ![t] = [state |-> "returned", result |-> NoId]]
    /\ sm_goto(t, "idle")
    /\ UNCHANGED <<inp, loc, sess, ids, blobs, hist, runs>>

NextSettings ==
    \/ \E t \in Threads : call_get_instance(t)
    \/ \E t \in Threads : call_reset_instance(t)
    \/ \E t \in Threads : gi_check(t)
    \/ \E t \in Threads : gi_lock(t)
    \/ \E t \in Threads : gi_check2(t)
    \/ \E t \in Threads : gi_create(t)
    \/ \E t \in Threads : gi_load(t)
    \/ \E t \in Threads : gi_exit(t)
    \/ \E t \in Threads : gi_return(t)
    \/ \E t \in Threads : rs_lock(t)
    \/ \E t \in Threads : rs_set(t)
    \/ \E t \in Threads : rs_exit(t)

SpecSettings == InitSettings /\ [][NextSettings]_vars

\* a get_instance call during which no reset took effect
BetweenResets(r) == r.from = r.to

\* C20: every value get_instance has returned is a SettingsManager object,
\* never None, whose load_from_env had completed when it was returned, and
\* two get_instance calls that ran between the same two resets returned the
\* same object.
C20_ThreadSafeSingleton ==
    \A r \in hist.returned :
        /\ r.instance # NoId
        /\ r.loaded
        /\ \A q \in hist.returned :
             BetweenResets(r) /\ BetweenResets(q) /\ r.from = q.from
               => r.instance = q.instance


---------------------------------------------------------------------------
(* The fan-in of the critic graph on its own: the fragments of the branches
   are appended to State.results (reducer operator.add) in some order, then
   _parse_results merges them onto the references. *)

BranchNames == {"is_witness", "rewrite", "reviewer"}

\* an item of the critic's JSON that itself carries a key a branch fragment
\* also has: {"hash_id": md5(content), **item} keeps every key of the item
ReferenceWith(i, c, own) ==
    IF own THEN [Reference(i, c) EXCEPT !.is_witness = <<"critic", i>>]
    ELSE Reference(i, c)

\* the fragment a branch of the i-th subgraph returns
Fragment(references, i, branch) ==
    CASE branch = "is_witness" -> is_witness_result(references[i], i)
      [] branch = "rewrite" -> rewrite_result(references[i], i)
      [] branch = "reviewer" -> reviewer_result(references[i], i)

MergeInputs ==
    {[contents |-> c, own |-> o] : c \in {<<1>>, <<1, 2>>, <<1, 1>>}, o \in BOOLEAN}

InitMerge ==
    /\ pc = "mg_fan_in"
    /\ inp \in MergeInputs
    /\ loc = [references |-> [i \in DOMAIN inp.contents |->
                                ReferenceWith(i, inp.contents[i], inp.own)],
              pending |-> (DOMAIN inp.contents) \X BranchNames,
              results |-> <<>>]
    /\ db = EmptyDb
    /\ sess = <<>>
    /\ ids = InitIds
    /\ blobs = {}
    /\ out = [state |-> "running", result |-> <<>>]
    /\ hist = <<>>
    /\ runs = 1

\* operator.add on State.results: the fragment of a branch that returned is
\* appended to the list
results_add ==
    /\ pc = "mg_fan_in"
    /\ \E f \in loc.pending :
         loc' = [loc EXCEPT !.pending = @ \ {f},
                            !.results = Append(@, Fragment(loc.references, f[1], f[2]))]
    /\ UNCHANGED <<pc, inp, db, sess, ids, blobs, out, hist, runs>>

\* _parse_results(graph_results) once every branch has returned
parse_results ==
    /\ pc = "mg_fan_in"
    /\ loc.pending = {}
    /\ pc' = "done"
    /\ out' = [state |-> "returned", result |-> _parse_results(loc.references, loc.results)]
    /\ UNCHANGED <<inp, loc, db, sess, ids, blobs, hist, runs>>

NextMerge == results_add \/ parse_results

SpecMerge == InitMerge /\ [][NextMerge]_vars

\* C26: the fan-in merge only adds fields.  In the merged record of every
\* candidate, each field the critic put on the candidate has the value the
\* critic gave it, also when a fragment carries a field of that name.
C26_MergeOnlyAddsFields ==
    pc = "done"
      => \A i \in DOMAIN loc.references :
           \A k \in ReferenceKeys :
              loc.references[i][k] # Absent => out.result[i][k] = loc.references[i][k]


\* the merged records when the fragments arrive in the order of the candidates
InSendOrder == _parse_results(loc.references, fan_in(loc.references, 1))

\* C29: the output does not depend on the interleaving of the branches.  For
\* a fixed critic output and fixed answers of the branch calls, whatever the
\* order in which the fragments were appended to the result list, the merge
\* yields the same set of records, with the same field values, as the order
\* of the candidates yields.
C29_MergeOrderIndependent ==
    pc = "done"
      => {out.result[i] : i \in DOMAIN out.result} = {InSendOrder[i] : i \in DOMAIN InSendOrder}


---------------------------------------------------------------------------
(* AnalysisOrchestrator._run_tasks_parallel, src/src/analysis/orchestrator.py:
   one asyncio task per analysis task on a new event loop, run with
   run_until_complete on the gather of these tasks.  The event loop is modelled by its
   queue of ready callbacks, which it runs in FIFO order, one batch per
   iteration, and leaves after the iteration in which stop() was called. *)

Handle(kind, task) == [kind |-> kind, task |-> task]

CallSoonFirst(ready, handle) == <<handle>> \o ready

\* loop.call_soon: the callback joins the end of the ready queue
call_soon(ready, handle) == Append(ready, handle)

ParallelInputs ==
    UNION {[1 .. n -> BOOLEAN] : n \in 1 .. MaxTasks}

InitParallel ==
    /\ pc = "rp_create"
    /\ inp \in {[fails |-> f] : f \in ParallelInputs}
    /\ loc = [futures |-> <<>>, ready |-> <<>>, ntodo |-> 0, outer |-> "pending",
              raised |-> 0, nfinished |-> 0, stopping |-> FALSE]
    /\ db = EmptyDb
    /\ sess = <<>>
    /\ ids = InitIds
    /\ blobs = {}
    /\ out = [state |-> "running", result |-> NoId]
    /\ hist = [calls |-> [t \in DOMAIN inp.fails |-> 0],
               ended |-> [t \in DOMAIN inp.fails |-> FALSE]]
    /\ runs = 1

\* the loop `for task in tasks`: loop.create_task schedules the first step of
\* the coroutine; after the last one, gather and run_until_complete
create_task ==
    /\ pc = "rp_create"
    /\ IF Len(loc.futures) < Len(inp.fails)
       THEN /\ loc' = [loc EXCEPT !.futures = Append(@, "pending"),
                                  !.ready = call_soon(@, Handle("step", Len(loc.futures) + 1))]
            /\ pc' = pc
       ELSE /\ loc' = [loc EXCEPT !.ntodo = Len(loc.ready)]
            /\ pc' = "rp_loop"
    /\ UNCHANGED <<inp, db, sess, ids, blobs, out, hist, runs>>

\* _run_single_task has no await: its first step instantiates the worker and
\* runs worker.analyze to its end; the task is then done and the callback
\* gather put on it is scheduled
_run_single_task(t) ==
    /\ hist' = [hist EXCEPT !.calls[t] = @ + 1, !.ended[t] = TRUE]
    /\ loc' = [loc EXCEPT !.futures[t] = IF inp.fails[t] THEN "exception" ELSE "result",
                          !.ready = call_soon(Tail(@), Handle("done", t)),
                          !.ntodo = @ - 1]

\* gather's _done_callback: the first exception, or the last result, settles
\* the outer future, on which run_until_complete has put its callback
_done_callback(t) ==
    /\ hist' = hist
    /\ IF loc.outer # "pending"
       THEN loc' = [loc EXCEPT !.ready = Tail(@), !.ntodo = @ - 1]
       ELSE IF loc.futures[t] = "exception"
       THEN loc' = [loc EXCEPT !.outer = "exception", !.raised = t,
                               !.ready = call_soon(Tail(@), Handle("stop", 0)),
                               !.ntodo = @ - 1]
       ELSE IF loc.nfinished + 1 = Len(loc.futures)
       THEN loc' = [loc EXCEPT !.outer = "result", !.nfinished = @ + 1,
                               !.ready = call_soon(Tail(@), Handle("stop", 0)),
                               !.ntodo = @ - 1]
       ELSE loc' = [loc EXCEPT !.nfinished = @ + 1, !.ready = Tail(@), !.ntodo = @ - 1]

\* _run_until_complete_cb: loop.stop()
_run_until_complete_cb ==
    /\ hist' = hist
    /\ loc' = [loc EXCEPT !.stopping = TRUE, !.ready = Tail(@), !.ntodo = @ - 1]

\* the event loop runs the next callback of the current iteration
run_once ==
    /\ pc = "rp_loop"
    /\ loc.ntodo > 0
    /\ LET handle == Head(loc.ready)
       IN CASE handle.kind = "step" -> _run_single_task(handle.task)
            [] handle.kind = "done" -> _done_callback(handle.task)
            [] handle.kind = "stop" -> _run_until_complete_cb
    /\ UNCHANGED <<pc, inp, db, sess, ids, blobs, out, runs>>

\* between two iterations: the loop goes on unless stop() was called; then
\* loop.close() and future.result(), which raises the exception of the first
\* task that failed
run_forever ==
    /\ pc = "rp_loop"
    /\ loc.ntodo = 0
    /\ IF loc.stopping
       THEN /\ pc' = "done"
            /\ out' = IF loc.outer = "exception"
                      THEN [state |-> "raised", result |-> loc.raised]
                      ELSE [state |-> "returned", result |-> NoId]
            /\ loc' = loc
       ELSE /\ loc.ready # <<>>
            /\ loc' = [loc EXCEPT !.ntodo = Len(loc.ready)]
            /\ UNCHANGED <<pc, out>>
    /\ UNCHANGED <<inp, db, sess, ids, blobs, hist, runs>>

NextParallel == create_task \/ run_once \/ run_forever

SpecParallel == InitParallel /\ [][NextParallel]_vars

\* C28: concurrent task mode.  One unit of work is started per task and no
\* worker is called twice; _run_tasks_parallel ends only when the worker call
\* of every task has been made once and has ended; it raises exactly when a
\* worker raised, with the exception of a task that failed, and returns
\* otherwise.
C28_ParallelRunsEveryTask ==
    /\ \A t \in DOMAIN hist.calls : hist.calls[t] <= 1
    /\ pc # "rp_create" => Len(loc.futures) = Len(inp.fails)
    /\ pc = "done"
         => /\ \A t \in DOMAIN inp.fails : hist.calls[t] = 1 /\ hist.ended[t]
            /\ out.state = "raised" <=> \E t \in DOMAIN inp.fails : inp.fails[t]
            /\ out.state = "raised" => inp.fails[out.result]
            /\ out.state # "raised" => out.state = "returned"

\* the worker of the first of three tasks raised, the two others were still
\* run, and the exception reached the caller
C28_Witness ==
    /\ pc = "done"
    /\ inp.fails = <<TRUE, FALSE, FALSE>>
    /\ out.state = "raised"
    /\ out.result = 1
    /\ hist.calls = <<1, 1, 1>>
    /\ hist.ended = <<TRUE, TRUE, TRUE>>


---------------------------------------------------------------------------
(* Maintenance of the relational store: BaseRepository.delete               *)
(* (src/src/repositories/base.py) and SessionManager.truncate_table         *)
(* (src/src/database/session.py).  No path of the two orchestrators calls   *)
(* them; they act on the stores the orchestrators leave.                    *)

\* what an ingestion of two documents and an analysis of the first section left
StoredDb ==
    [cases |-> <<[CaseDefaults EXCEPT !.id = CmsCaseId(1), !.urn = UrnNames[1]]>>,
     defendants |-> <<[id |-> CmsDefendantId(1), case_id |-> CmsCaseId(1)]>>,
     charges |-> <<[id |-> CmsChargeId(1), defendant_id |-> CmsDefendantId(1)]>>,
     offences |-> <<[id |-> CmsOffenceId(1), defendant_id |-> CmsDefendantId(1)]>>,
     documents |-> [j \in 1 .. 2 |->
                     [DocumentDefaults EXCEPT !.id = CmsDocId(1, j),
                                              !.case_id = CmsCaseId(1)]],
     versions |-> [j \in 1 .. 2 |->
                    [VersionDefaults EXCEPT !.id = CmsVersionId(1, j),
                                            !.document_id = CmsDocId(1, j)]],
     experiments |-> <<[id |-> SuppliedExperiment]>>,
     sections |-> [j \in 1 .. 2 |->
                    [SectionRow EXCEPT !.id = j, !.version_id = CmsVersionId(1, j),
                                       !.document_id = CmsDocId(1, j)]],
     analysisjobs |-> <<[AnalysisJobDefaults EXCEPT !.id = 1, !.section_id = 1,
                                                    !.experiment_id = SuppliedExperiment]>>,
     analysisresults |-> <<[AnalysisResultDefaults EXCEPT !.id = 1,
                                                         !.analysis_job_id = 1]>>]

StoredIds == [InitIds EXCEPT !.sections = 3, !.analysisjobs = 2, !.analysisresults = 2]

InitStore ==
    /\ pc = "idle"
    /\ inp \in {[storage |-> WithAll, defendant |-> r] :
                  r \in {DefendantRelationships, WithOffences}}
    /\ loc = <<>>
    /\ db \in {StoredDb, [StoredDb EXCEPT !.offences = <<>>]}
    /\ sess = <<>>
    /\ ids = StoredIds
    /\ blobs = {}
    /\ out = [state |-> "none"]
    /\ hist = [configure_failed |-> FALSE]
    /\ runs = 0

\* repository.delete(id) in a session of its own.  get_by_id executes a
\* select: the session takes its connection (an unreachable database raises),
\* the statement is compiled (models that cannot be configured raise), and
\* only then is the entity looked up, deleted and the DELETE flushed
repository_delete ==
    /\ pc = "idle"
    /\ \E t \in Tables :
         \E id \in IdsOf(StoredDb[t]) :
            /\ \/ /\ out' = [state |-> "raised",
                              error |-> Exc("OperationalError", "database unavailable")]
                  /\ UNCHANGED <<db, hist>>
               \/ /\ Unmapped
                  /\ out' = [state |-> "raised",
                             error |-> configure_mappers(inp.defendant, hist.configure_failed)]
                  /\ hist' = [hist EXCEPT !.configure_failed = TRUE]
                  /\ db' = db
               \/ /\ ~Unmapped
                  /\ hist' = hist
                  /\ IF DeleteMisses(db, t, id)
                     THEN /\ out' = [state |-> "returned", result |-> FALSE]
                          /\ db' = db
                     ELSE IF DeleteRaises(db, t, id)
                     THEN /\ out' = [state |-> "raised",
                                     error |-> Exc("IntegrityError", "violates foreign key constraint")]
                          /\ db' = db
                     ELSE /\ out' = [state |-> "returned", result |-> TRUE]
                          /\ db' = delete(db, t, id)
            /\ UNCHANGED <<pc, inp, loc, sess, ids, blobs, runs>>

\* repr(table_name) of a name without quotes or escapes
repr(name) == "'" \o name \o "'"

\* session_manager.truncate_table(table_name): a name that is no table of the
\* metadata raises before anything reaches the database; the statement is
\* plain text (no mapped class is used) and is committed at once; the method
\* returns None
truncate ==
    /\ pc = "idle"
    /\ \E t \in Tables \cup {"unknown"} :
         /\ IF t \notin Tables
            THEN /\ out' = [state |-> "raised",
                            error |-> Exc("ValueError",
                                          "Unknown or unauthorized table name: " \o repr(t))]
                 /\ UNCHANGED <<db, ids>>
            ELSE \/ /\ out' = [state |-> "raised",
                               error |-> Exc("OperationalError", "database unavailable")]
                    /\ UNCHANGED <<db, ids>>
                 \/ /\ out' = [state |-> "returned", result |-> Absent]
                    /\ db' = truncate_table(db, t)
                    /\ ids' = restart_identity(ids, t)
         /\ UNCHANGED <<pc, inp, loc, sess, blobs, hist, runs>>

NextStore == repository_delete \/ truncate

SpecStore == InitStore /\ [][NextStore]_vars

\* no row refers to a row that is gone, whatever was deleted or truncated
ReferencesResolve ==
    \A fk \in ForeignKeys :
        \A i \in DOMAIN db[fk[1]] : exists(db[fk[3]], db[fk[1]][i][fk[2]])

====
